---- MODULE Spec2Model ----
(***************************************************************************)
(* Messaging core of the Qi window UI: the window-scoped connection module *)
(* qi.windowConnections.svelte.js (identity and context resolution, the    *)
(* process-wide WebSocket handle, the topic router and the emitter) and    *)
(* the window state subscriptions it installs.                             *)
(***************************************************************************)
EXTENDS Integers, Sequences, FiniteSets, TLC

(***************************************************************************)
(* Bounds of the model.                                                    *)
(***************************************************************************)
MaxSockets == 2
MaxInits == 2
MaxUuids == 3

(***************************************************************************)
(* JavaScript values.  Strings model strings; objects whose content does   *)
(* not matter are opaque (truthy) atoms.                                   *)
(***************************************************************************)
Undefined == "undefined"
Null == "null"
EmptyString == ""
EmptyObject == "{}"

Falsy == {Undefined, Null, EmptyString}

Truthy(v) == v \notin Falsy

\* a || b
Or(a, b) == IF Truthy(a) THEN a ELSE b

\* a ?? b
Coalesce(a, b) == IF a \in {Undefined, Null} THEN b ELSE a

\* crypto.randomUUID(): the n-th value generated in this window
RandomUUID(n) == <<"uuid-1", "uuid-2", "uuid-3", "uuid-4", "uuid-5", "uuid-6",
                   "uuid-7", "uuid-8", "uuid-9", "uuid-10", "uuid-11", "uuid-12",
                   "uuid-13", "uuid-14", "uuid-15", "uuid-16">>[n]

\* `window_${crypto.randomUUID()}` for the n-th generated value
FallbackWindowId(n) == <<"window_uuid-1", "window_uuid-2", "window_uuid-3",
                         "window_uuid-4", "window_uuid-5", "window_uuid-6",
                         "window_uuid-7", "window_uuid-8", "window_uuid-9",
                         "window_uuid-10", "window_uuid-11", "window_uuid-12",
                         "window_uuid-13", "window_uuid-14", "window_uuid-15",
                         "window_uuid-16">>[n]

(***************************************************************************)
(* Context records.  A field that is absent from an object reads as        *)
(* undefined, so an object is a record whose absent fields are Undefined;  *)
(* qiConnection.context = null reads the same through `?.`.                *)
(***************************************************************************)
ContextFields == {"project", "entity", "task"}

NoContext == [f \in ContextFields |-> Undefined]

\* a lookup that prefers the stored record to the URL
getContextFieldStoredFirst(field, urlParams, stored, global, path) ==
    Or(stored[field], Or(urlParams[field], Or(global[field], Or(path[field], Null))))

\* getContextField(field, urlParams, stored, global, path)
getContextField(field, urlParams, stored, global, path) ==
    Or(urlParams[field], Or(stored[field], Or(global[field], Or(path[field], Null))))

\* the record built by detectContextForWindow
DetectedContext(urlParams, stored, global) ==
    [f \in ContextFields |-> getContextField(f, urlParams, stored, global, NoContext)]

\* a read of whatever context record the store holds, whichever window wrote it
StoredContextOfAnyWindow(storage, window_id) ==
    IF DOMAIN storage.context # {}
    THEN storage.context[CHOOSE w \in DOMAIN storage.context : TRUE]
    ELSE NoContext

\* JSON.parse(sessionStorage.getItem(`qiContext_${window_id}`) || "{}")
StoredContext(storage, window_id) ==
    IF window_id \in DOMAIN storage.context THEN storage.context[window_id] ELSE NoContext

\* JSON.parse(JSON.stringify(context)) of a context record: undefined fields are dropped
JsonContext(context) == [f \in ContextFields |-> context[f]]

\* detectContextForWindow storing its result whatever it holds
StorageAfterDetectAlways(storage, window_id, context) ==
    [storage EXCEPT !.context =
        [w \in (DOMAIN storage.context) \cup {window_id} |->
            IF w = window_id THEN JsonContext(context) ELSE storage.context[w]]]

\* sessionStorage after detectContextForWindow(window_id)
StorageAfterDetect(storage, window_id, context) ==
    IF \E f \in ContextFields : Truthy(context[f])
    THEN [storage EXCEPT !.context =
            [w \in (DOMAIN storage.context) \cup {window_id} |->
                IF w = window_id THEN JsonContext(context) ELSE storage.context[w]]]
    ELSE storage

(***************************************************************************)
(* WebSocket handles.                                                      *)
(***************************************************************************)
CONNECTING == 0
OPEN == 1
CLOSING == 2
CLOSED == 3

VARIABLES
    sockets,          \* every WebSocket constructed by the module, in construction order
    wsGlobal,         \* window.__qiConnection: index into sockets, 0 when absent
    qiConnection,     \* the reactive state object
    installed,        \* initQiConnection has replaced emit/on/off by the real implementations
    messageHandlers,  \* _messageHandlers: topic -> handlers in insertion order
    onCalls,          \* the registered (topic, handler) pairs that on was called for again
    sessionStorage,   \* qiSessionId, qiAddon, and the qiContext_<window_id> records
    pendingSetup,     \* initQiConnection calls suspended at `await import(...)`
    setupCount,       \* completed setupWindowSubscriptions calls
    initCount,        \* initQiConnection calls made
    uuidCount,        \* crypto.randomUUID() values generated
    ui,               \* windowState, the demo page and the getWindowState calls
    clock,            \* Date.now(), in milliseconds
    peer,             \* a second window on the same sessionStorage: its identity and context
    last              \* the call or event of the last step and what it did

vars == <<sockets, wsGlobal, qiConnection, installed, messageHandlers, onCalls,
          sessionStorage, pendingSetup, setupCount, initCount, uuidCount, ui, clock,
          peer, last>>

(***************************************************************************)
(* Emitter: the envelope built by emit(topic, options).                     *)
(* An options.context / options.source value is a record tagged with its   *)
(* kind: "undefined" when the caller gave none, or "object".               *)
(***************************************************************************)
\* finalContext with `context.field || stored` in place of `!== undefined`
FinalContextTruthyOverride(context, stored) ==
    IF context.kind = "object"
    THEN [f \in ContextFields |-> Or(context[f], Or(stored[f], Null))]
    ELSE [f \in ContextFields |-> Or(stored[f], Null)]

\* finalContext whose default branch reads entity for task
FinalContextWrongField(context, stored) ==
    IF context.kind = "object"
    THEN [f \in ContextFields |->
            IF context[f] # Undefined THEN context[f] ELSE Or(stored[f], Null)]
    ELSE [f \in ContextFields |->
            Or(stored[IF f = "task" THEN "entity" ELSE f], Null)]

\* finalContext (emit, "Build context")
FinalContext(context, stored) ==
    IF context.kind = "object"
    THEN [f \in ContextFields |->
            IF context[f] # Undefined THEN context[f] ELSE Or(stored[f], Null)]
    ELSE [f \in ContextFields |-> Or(stored[f], Null)]

\* finalSource that takes addon and session_id from the override alone
FinalSourceNoFallback(source, user, qi) ==
    IF source.kind = "object"
    THEN [addon      |-> source.addon,
          session_id |-> source.session_id,
          window_id  |-> IF source.window_id # Undefined
                         THEN source.window_id ELSE qi.window_id,
          user       |-> IF source.user # Undefined
                         THEN source.user ELSE Or(user, Or(qi.user, Null))]
    ELSE [addon      |-> qi.addon,
          session_id |-> qi.session_id,
          window_id  |-> qi.window_id,
          user       |-> Or(user, Or(qi.user, Null))]

\* finalSource whose user prefers the local user to the user argument
FinalSourceLocalUserFirst(source, user, qi) ==
    IF source.kind = "object"
    THEN [addon      |-> Or(source.addon, qi.addon),
          session_id |-> Or(source.session_id, qi.session_id),
          window_id  |-> IF source.window_id # Undefined
                         THEN source.window_id ELSE qi.window_id,
          user       |-> IF source.user # Undefined
                         THEN source.user ELSE Or(qi.user, Or(user, Null))]
    ELSE [addon      |-> qi.addon,
          session_id |-> qi.session_id,
          window_id  |-> qi.window_id,
          user       |-> Or(user, Or(qi.user, Null))]

\* finalSource that leaves the window of a normal emit to the server
FinalSourceWithoutWindow(source, user, qi) ==
    IF source.kind = "object"
    THEN [addon      |-> Or(source.addon, qi.addon),
          session_id |-> Or(source.session_id, qi.session_id),
          window_id  |-> IF source.window_id # Undefined
                         THEN source.window_id ELSE qi.window_id,
          user       |-> IF source.user # Undefined
                         THEN source.user ELSE Or(user, Or(qi.user, Null))]
    ELSE [addon      |-> qi.addon,
          session_id |-> qi.session_id,
          window_id  |-> Null,
          user       |-> Or(user, Or(qi.user, Null))]

\* finalSource (emit, "Build source information for routing")
FinalSource(source, user, qi) ==
    IF source.kind = "object"
    THEN [addon      |-> Or(source.addon, qi.addon),
          session_id |-> Or(source.session_id, qi.session_id),
          window_id  |-> IF source.window_id # Undefined
                         THEN source.window_id ELSE qi.window_id,
          user       |-> IF source.user # Undefined
                         THEN source.user ELSE Or(user, Or(qi.user, Null))]
    ELSE [addon      |-> qi.addon,
          session_id |-> qi.session_id,
          window_id  |-> qi.window_id,
          user       |-> Or(user, Or(qi.user, Null))]

\* finalUser
FinalUser(user, qi) == Or(user, Or(qi.user, Null))

\* a destructuring default of `options`
Default(v, d) == IF v = Undefined THEN d ELSE v

\* the envelope object of one emit call
Envelope(message_id, topic, options, qi, timestamp) ==
    [message_id |-> message_id,
     topic      |-> topic,
     payload    |-> Default(options.payload, EmptyObject),
     context    |-> FinalContext(options.context, qi.context),
     source     |-> FinalSource(options.source, Default(options.user, Null), qi),
     user       |-> FinalUser(Default(options.user, Null), qi),
     reply_to   |-> Default(options.reply_to, Null),
     timestamp  |-> timestamp]

MillisecondsPerSecond == 1000

\* Date.now() / 1000: seconds, with the milliseconds as the fraction
Timestamp(now) ==
    [seconds |-> now \div MillisecondsPerSecond, millis |-> now % MillisecondsPerSecond]

\* a payload with a property JSON.stringify leaves out, and what is left of it
LossyPayload == "{a: undefined}"

\* JSON.parse(JSON.stringify(value)) of a payload
JsonValue(value) == IF value = LossyPayload THEN EmptyObject ELSE value

\* a wire format without the reply correlation
DecodedWithoutReplyTo(envelope) == [envelope EXCEPT !.reply_to = Null]

\* what a receiver decodes from JSON.stringify(envelope)
Decoded(envelope) == [envelope EXCEPT !.payload = JsonValue(@)]

\* a payload JSON.stringify throws on (a cyclic object, a BigInt)
Unserialisable == "<cyclic>"

\* JSON.stringify(envelope) throws
StringifyThrows(envelope) == envelope.payload = Unserialisable

\* WebSocket.send by readyState: CONNECTING throws InvalidStateError,
\* OPEN transmits, CLOSING and CLOSED discard the data silently
SendOutcome(readyState) ==
    IF readyState = CONNECTING THEN "threw"
    ELSE IF readyState = OPEN THEN "sent"
    ELSE "discarded"

\* emit without its guard
EmitGuardMissing(qi) == TRUE

\* `if (!qiConnection.connected) return` at the head of emit
EmitGuard(qi) == qi.connected

\* { ...a, ...b } of two user values (null, or an opaque object)
SpreadUser(a, b) ==
    IF Truthy(b) /\ b # EmptyObject THEN b
    ELSE IF Truthy(a) THEN a
    ELSE EmptyObject

\* a merge that passes over an explicit null or empty value of newContext
SpreadContextTruthy(context, newContext) ==
    [f \in ContextFields |-> Or(newContext[f], context[f])]

\* { ...context, ...newContext }: a key absent from newContext is Undefined there
SpreadContext(context, newContext) ==
    [f \in ContextFields |->
        IF newContext[f] # Undefined THEN newContext[f] ELSE context[f]]

(***************************************************************************)
(* State after the module has been loaded.                                 *)
(***************************************************************************)
NoHandlers == [t \in {} |-> <<>>]

NoOp == [op |-> "none"]

\* windowState as its module creates it, the demo page before it is mounted
\* (its window list, its ping response, and whether its subscriptions went to
\* the router or to the placeholder on), and no getWindowState call made
InitialUi ==
    [isMaximized |-> "false", isMinimized |-> Undefined, windows |-> "[]",
     pingResponse |-> Null, mounted |-> "no", requests |-> <<>>]

\* the second window before its initQiConnection
NoPeer == [window_id |-> Null, context |-> NoContext, inits |-> 0]

Init ==
    /\ sockets = <<>>
    /\ wsGlobal = 0
    /\ qiConnection = [session_id |-> Null, addon |-> Null, window_id |-> Null,
                       socket |-> 0, context |-> NoContext, user |-> Null,
                       connected |-> FALSE]
    /\ installed = FALSE
    /\ messageHandlers = NoHandlers
    /\ onCalls = {}
    /\ sessionStorage = [qiSessionId |-> Null, qiAddon |-> Null,
                         context |-> [w \in {} |-> NoContext]]
    /\ pendingSetup = 0
    /\ setupCount = 0
    /\ initCount = 0
    /\ uuidCount = 0
    /\ ui = InitialUi
    /\ clock = 0
    /\ peer = NoPeer
    /\ last = NoOp

(***************************************************************************)
(* initQiConnection, up to its `await import(...)`.                        *)
(* env is what the call reads from its surroundings: the URL parameters,   *)
(* the first path segment and window.qi_context.                           *)
(***************************************************************************)
\* a reuse test that keeps only an OPEN handle
needsNewConnectionUnlessOpen(existingWs, socks) ==
    \/ existingWs = 0
    \/ socks[existingWs].readyState # OPEN

needsNewConnection(existingWs, socks) ==
    \/ existingWs = 0
    \/ socks[existingWs].readyState = CLOSED
    \/ socks[existingWs].readyState = CLOSING

\* `if (window_id)` on the URL parameter, without the test for a string
WindowIdFromUrlUnchecked(param) == param # Null

\* the URL parameter is used: `window_id && typeof window_id === "string"`
WindowIdFromUrl(param) == Truthy(param)

\* identity resolution that derives the addon from the location of every call
ResolveIdentityFromLocation(storage, env, uuid) ==
    LET storedSession == storage.qiSessionId
        genSession    == ~Truthy(storedSession) /\ env.session_id = Null
        u1            == IF genSession THEN uuid + 1 ELSE uuid
        session_id    == IF Truthy(storedSession) THEN storedSession
                         ELSE IF genSession THEN RandomUUID(u1) ELSE env.session_id
        addon         == Coalesce(env.pathSegment, EmptyString)
        genWindow     == ~WindowIdFromUrl(env.window_id)
        u2            == IF genWindow THEN u1 + 1 ELSE u1
        window_id     == IF genWindow THEN FallbackWindowId(u2) ELSE env.window_id
    IN  [session_id |-> session_id, addon |-> addon, window_id |-> window_id,
         storage |-> [storage EXCEPT !.qiSessionId = session_id, !.qiAddon = addon],
         uuid |-> u2]

\* session, addon and window identity, and what resolving them leaves in
\* sessionStorage; uuid counts the crypto.randomUUID() values generated
ResolveIdentity(storage, env, uuid) ==
    LET storedSession == storage.qiSessionId
        genSession    == ~Truthy(storedSession) /\ env.session_id = Null
        u1            == IF genSession THEN uuid + 1 ELSE uuid
        session_id    == IF Truthy(storedSession) THEN storedSession
                         ELSE IF genSession THEN RandomUUID(u1) ELSE env.session_id
        storedAddon   == storage.qiAddon
        addon         == IF Truthy(storedAddon) THEN storedAddon
                         ELSE Coalesce(env.pathSegment, EmptyString)
        genWindow     == ~WindowIdFromUrl(env.window_id)
        u2            == IF genWindow THEN u1 + 1 ELSE u1
        window_id     == IF genWindow THEN FallbackWindowId(u2) ELSE env.window_id
    IN  [session_id |-> session_id, addon |-> addon, window_id |-> window_id,
         storage |-> [storage EXCEPT !.qiSessionId = session_id, !.qiAddon = addon],
         uuid |-> u2]

\* a router whose handler map belongs to the handle and is reset with it
HandlersAfterInitCleared(map, needsNew) == IF needsNew THEN NoHandlers ELSE map

\* `const _messageHandlers = new Map()` is module state: initQiConnection
\* neither replaces nor clears it
HandlersAfterInit(map, needsNew) == map

\* env.storage is the state of sessionStorage that the call meets: "ok",
\* "unavailable" (every access throws), or "corrupt" (the text under the
\* window key is not JSON).  A throw rejects the promise of the call and
\* leaves the assignments made before it.
InitQiConnection(env) ==
    LET id       == ResolveIdentity(sessionStorage, env, uuidCount)
        context  == DetectedContext(env.urlContext,
                                    StoredContext(id.storage, id.window_id),
                                    env.qi_context)
        needsNew == needsNewConnection(wsGlobal, sockets)
        ws       == [readyState |-> CONNECTING, session_id |-> id.session_id,
                     window_id |-> id.window_id]
        socks    == IF needsNew THEN Append(sockets, ws) ELSE sockets
        handle   == IF needsNew THEN Len(socks) ELSE wsGlobal
    IN  /\ initCount < MaxInits
        /\ initCount' = initCount + 1
        /\ CASE env.storage = "unavailable" ->
                  /\ last' = [op |-> "init", env |-> env, threw |-> TRUE]
                  /\ UNCHANGED <<sockets, wsGlobal, qiConnection, installed,
                                 sessionStorage, pendingSetup, uuidCount,
                                 messageHandlers>>
             [] env.storage = "corrupt" ->
                  /\ id.uuid <= MaxUuids
                  /\ uuidCount' = id.uuid
                  /\ sessionStorage' = id.storage
                  /\ qiConnection' =
                        [qiConnection EXCEPT !.session_id = id.session_id,
                                             !.addon = id.addon,
                                             !.window_id = id.window_id]
                  /\ last' = [op |-> "init", env |-> env, threw |-> TRUE]
                  /\ UNCHANGED <<sockets, wsGlobal, installed, pendingSetup,
                                 messageHandlers>>
             [] OTHER ->
                  /\ id.uuid <= MaxUuids
                  /\ needsNew => Len(sockets) < MaxSockets
                  /\ uuidCount' = id.uuid
                  /\ sessionStorage' = StorageAfterDetect(id.storage, id.window_id, context)
                  /\ sockets' = socks
                  /\ wsGlobal' = handle
                  /\ qiConnection' =
                        [session_id |-> id.session_id, addon |-> id.addon,
                         window_id |-> id.window_id, socket |-> handle,
                         context |-> context, user |-> Null,
                         connected |-> (socks[handle].readyState = OPEN)]
                  /\ installed' = TRUE
                  /\ messageHandlers' = HandlersAfterInit(messageHandlers, needsNew)
                  /\ pendingSetup' = pendingSetup + 1
                  /\ last' = [op |-> "init", env |-> env, threw |-> FALSE]
        /\ UNCHANGED <<ui, clock, peer, onCalls, setupCount>>

(***************************************************************************)
(* Socket events.  Every handle of the module carries the four listeners   *)
(* installed at its construction.                                          *)
(***************************************************************************)
SetReadyState(socks, s, readyState) ==
    [socks EXCEPT ![s].readyState = readyState]

\* a handle whose "open" listener is lost when initQiConnection reuses it
SocketOpenWithoutListener(s) ==
    /\ s \in DOMAIN sockets
    /\ sockets[s].readyState = CONNECTING
    /\ sockets' = SetReadyState(sockets, s, OPEN)
    /\ qiConnection' = [qiConnection EXCEPT !.connected = (initCount < 2)]
    /\ last' = [op |-> "open", socket |-> s]
    /\ UNCHANGED <<ui, clock, peer, wsGlobal, installed, messageHandlers, onCalls, sessionStorage,
                   pendingSetup, setupCount, initCount, uuidCount>>

\* the connection is established: readyState OPEN, then the "open" listener
SocketOpen(s) ==
    /\ s \in DOMAIN sockets
    /\ sockets[s].readyState = CONNECTING
    /\ sockets' = SetReadyState(sockets, s, OPEN)
    /\ qiConnection' = [qiConnection EXCEPT !.connected = TRUE]
    /\ last' = [op |-> "open", socket |-> s]
    /\ UNCHANGED <<ui, clock, peer, wsGlobal, installed, messageHandlers, onCalls, sessionStorage,
                   pendingSetup, setupCount, initCount, uuidCount>>

\* the closing handshake starts: readyState CLOSING, no event
SocketClosing(s) ==
    /\ s \in DOMAIN sockets
    /\ sockets[s].readyState = OPEN
    /\ sockets' = SetReadyState(sockets, s, CLOSING)
    /\ last' = [op |-> "closing", socket |-> s]
    /\ UNCHANGED <<ui, clock, peer, wsGlobal, qiConnection, installed, messageHandlers, onCalls,
                   sessionStorage, pendingSetup, setupCount, initCount, uuidCount>>

\* the connection is closed cleanly: readyState CLOSED, then the "close" listener
SocketClose(s) ==
    /\ s \in DOMAIN sockets
    /\ sockets[s].readyState \in {OPEN, CLOSING}
    /\ sockets' = SetReadyState(sockets, s, CLOSED)
    /\ qiConnection' = [qiConnection EXCEPT !.connected = FALSE]
    /\ last' = [op |-> "close", socket |-> s]
    /\ UNCHANGED <<ui, clock, peer, wsGlobal, installed, messageHandlers, onCalls, sessionStorage,
                   pendingSetup, setupCount, initCount, uuidCount>>

\* "error" and "close" listeners that leave the connected flag alone
SocketErrorKeepingConnected(s) ==
    /\ s \in DOMAIN sockets
    /\ sockets[s].readyState \in {CONNECTING, OPEN, CLOSING}
    /\ sockets' = SetReadyState(sockets, s, CLOSED)
    /\ last' = [op |-> "error", socket |-> s]
    /\ UNCHANGED <<ui, clock, peer, wsGlobal, qiConnection, installed, messageHandlers, onCalls,
                   sessionStorage, pendingSetup, setupCount, initCount, uuidCount>>

\* the connection fails: readyState CLOSED, then the "error" and "close" listeners
SocketError(s) ==
    /\ s \in DOMAIN sockets
    /\ sockets[s].readyState \in {CONNECTING, OPEN, CLOSING}
    /\ sockets' = SetReadyState(sockets, s, CLOSED)
    /\ qiConnection' = [qiConnection EXCEPT !.connected = FALSE]
    /\ last' = [op |-> "error", socket |-> s]
    /\ UNCHANGED <<ui, clock, peer, wsGlobal, installed, messageHandlers, onCalls, sessionStorage,
                   pendingSetup, setupCount, initCount, uuidCount>>

(***************************************************************************)
(* emit(topic, options).  The implementation installed by initQiConnection *)
(* has the same body as the initial one.  `last` keeps the call, whether   *)
(* a frame went out, on which handle, and the envelope.                    *)
(***************************************************************************)
\* emit(topic, null): the default `options = {}` applies to undefined only
NullOptions == [kind |-> "null"]

\* `const { payload = {}, ... } = options`, before the try block: a TypeError
\* when options is null
DestructuringThrows(options) == options = NullOptions

Emit(topic, options) ==
    /\ IF ~EmitGuard(qiConnection)
       THEN /\ last' = [op |-> "emit", topic |-> topic, options |-> options,
                        outcome |-> "not-connected"]
            /\ UNCHANGED uuidCount
       ELSE IF DestructuringThrows(options)
       THEN /\ last' = [op |-> "emit", topic |-> topic, options |-> options,
                        outcome |-> "raised"]
            /\ UNCHANGED uuidCount
       ELSE LET message_id == RandomUUID(uuidCount + 1)
                envelope   == Envelope(message_id, topic, options, qiConnection,
                                       Timestamp(clock))
                s          == qiConnection.socket
                outcome    == IF s = 0 \/ StringifyThrows(envelope) THEN "threw"
                              ELSE SendOutcome(sockets[s].readyState)
            IN  /\ uuidCount < MaxUuids
                /\ uuidCount' = uuidCount + 1
                /\ last' = [op |-> "emit", topic |-> topic, options |-> options,
                            outcome |-> outcome, socket |-> s, envelope |-> envelope,
                            decoded |-> Decoded(envelope)]
    /\ UNCHANGED <<ui, clock, peer, sockets, wsGlobal, qiConnection, installed, messageHandlers, onCalls,
                   sessionStorage, pendingSetup, setupCount, initCount>>

\* sessionStorage after updateContext: `if (browser && this.window_id)` setItem
StorageAfterUpdate(storage, window_id, context) ==
    IF Truthy(window_id)
    THEN [storage EXCEPT !.context =
            [w \in (DOMAIN storage.context) \cup {window_id} |->
                IF w = window_id THEN JsonContext(context) ELSE storage.context[w]]]
    ELSE storage

\* qiConnection.updateContext(newContext)
UpdateContext(newContext) ==
    LET context == SpreadContext(qiConnection.context, newContext)
    IN  /\ qiConnection' = [qiConnection EXCEPT !.context = context]
        /\ sessionStorage' =
              StorageAfterUpdate(sessionStorage, qiConnection.window_id, context)
        /\ last' = [op |-> "updateContext", newContext |-> newContext]
        /\ UNCHANGED <<ui, clock, peer, sockets, wsGlobal, installed, messageHandlers, onCalls,
                       pendingSetup, setupCount, initCount, uuidCount>>

\* the second window runs the same module on the same sessionStorage; its
\* identity and context are kept, its connection is not.  The host opens it
\* with session_id and window_id parameters, so it generates no identifier.
PeerInitQiConnection(env) ==
    LET id      == ResolveIdentity(sessionStorage, env, 0)
        context == DetectedContext(env.urlContext,
                                   StoredContext(id.storage, id.window_id),
                                   env.qi_context)
    IN  /\ peer.inits < MaxInits
        /\ id.uuid = 0
        /\ peer' = [window_id |-> id.window_id, context |-> context,
                    inits |-> peer.inits + 1]
        /\ sessionStorage' = StorageAfterDetect(id.storage, id.window_id, context)
        /\ last' = [op |-> "peer-init", env |-> env]
        /\ UNCHANGED <<ui, clock, sockets, wsGlobal, qiConnection, installed,
                       messageHandlers, onCalls, pendingSetup, setupCount, initCount,
                       uuidCount>>

PeerUpdateContext(newContext) ==
    LET context == SpreadContext(peer.context, newContext)
    IN  /\ peer' = [peer EXCEPT !.context = context]
        /\ sessionStorage' = StorageAfterUpdate(sessionStorage, peer.window_id, context)
        /\ last' = [op |-> "peer-updateContext", newContext |-> newContext]
        /\ UNCHANGED <<ui, clock, sockets, wsGlobal, qiConnection, installed,
                       messageHandlers, onCalls, pendingSetup, setupCount, initCount,
                       uuidCount>>

\* qiConnection.updateUser(newUser)
UpdateUser(newUser) ==
    /\ qiConnection' = [qiConnection EXCEPT !.user = SpreadUser(@, newUser)]
    /\ last' = [op |-> "updateUser"]
    /\ UNCHANGED <<ui, clock, peer, sockets, wsGlobal, installed, messageHandlers, onCalls,
                   sessionStorage, pendingSetup, setupCount, initCount, uuidCount>>

(***************************************************************************)
(* Router: _messageHandlers is a Map from topic to a Set of handlers; a    *)
(* Set keeps insertion order, so it is a sequence without repetitions.     *)
(***************************************************************************)
\* the topics the application subscribes to, and its handlers
Topics == {"wm.window.state_response", "wm.window.listed"}

AppHandlers == {"h1", "h2"}

\* the topics setupWindowSubscriptions subscribes to, in subscription order
LifecycleTopics ==
    <<"wm.window.maximized", "wm.window.minimized", "wm.window.restored",
      "wm.window.hidden", "wm.window.shown", "wm.window.moved",
      "wm.window.resized", "wm.window.closed">>

\* the closures created by the n-th setupWindowSubscriptions call
SyncHandler(n) == <<"sync-1", "sync-2", "sync-3", "sync-4", "sync-5", "sync-6",
                    "sync-7", "sync-8">>[n]

Range(seq) == {seq[i] : i \in DOMAIN seq}

\* an add that moves a handler already in the Set to its end
SetAddMovingToEnd(set, h) == Append(SelectSeq(set, LAMBDA x : x # h), h)

\* Set.prototype.add
SetAdd(set, h) == IF h \in Range(set) THEN set ELSE Append(set, h)

\* Set.prototype.delete
SetDelete(set, h) == SelectSeq(set, LAMBDA x : x # h)

\* Map.prototype.set
MapSet(map, key, value) ==
    [k \in (DOMAIN map) \cup {key} |-> IF k = key THEN value ELSE map[k]]

\* Map.prototype.delete
MapDelete(map, key) == [k \in (DOMAIN map) \ {key} |-> map[k]]

\* _messageHandlers.get(topic), with undefined read as no handlers
MapGet(map, key) == IF key \in DOMAIN map THEN map[key] ELSE <<>>

\* on(topic, handler) over an array of handlers instead of a Set
HandlersAfterOnArray(map, topic, handler) ==
    LET created == IF topic \in DOMAIN map THEN map ELSE MapSet(map, topic, <<>>)
    IN  MapSet(created, topic, Append(created[topic], handler))

\* _messageHandlers after the installed on(topic, handler)
HandlersAfterOn(map, topic, handler) ==
    LET created == IF topic \in DOMAIN map THEN map ELSE MapSet(map, topic, <<>>)
    IN  MapSet(created, topic, SetAdd(created[topic], handler))

\* off(topic, handler) that leaves the emptied Set in the Map
HandlersAfterOffKeepingTopic(map, topic, handler) ==
    IF topic \in DOMAIN map
    THEN MapSet(map, topic, SetDelete(map[topic], handler))
    ELSE map

\* _messageHandlers after the installed off(topic, handler)
HandlersAfterOff(map, topic, handler) ==
    IF topic \in DOMAIN map
    THEN LET handlers == SetDelete(map[topic], handler)
         IN  IF Len(handlers) = 0 THEN MapDelete(map, topic)
             ELSE MapSet(map, topic, handlers)
    ELSE map

\* an on that registers with the router before initQiConnection too
OnRegisteringBeforeInit(topic, handler) ==
    /\ messageHandlers' = HandlersAfterOn(messageHandlers, topic, handler)
    /\ UNCHANGED onCalls
    /\ last' = [op |-> "on", topic |-> topic, handler |-> handler]
    /\ UNCHANGED <<ui, clock, peer, sockets, wsGlobal, qiConnection, installed, sessionStorage,
                   pendingSetup, setupCount, initCount, uuidCount>>

\* on(topic, handler): a warning before initQiConnection, the registration after
On(topic, handler) ==
    /\ IF installed
       THEN /\ messageHandlers' = HandlersAfterOn(messageHandlers, topic, handler)
            /\ onCalls' = IF handler \in Range(MapGet(messageHandlers, topic))
                          THEN onCalls \cup {<<topic, handler>>}
                          ELSE onCalls
       ELSE UNCHANGED <<messageHandlers, onCalls>>
    /\ last' = [op |-> "on", topic |-> topic, handler |-> handler]
    /\ UNCHANGED <<ui, clock, peer, sockets, wsGlobal, qiConnection, installed, sessionStorage,
                   pendingSetup, setupCount, initCount, uuidCount>>

\* what off(topic, handler) does to the module state
OffEffect(topic, handler) ==
    /\ IF installed
       THEN /\ messageHandlers' = HandlersAfterOff(messageHandlers, topic, handler)
            /\ onCalls' = onCalls \ {<<topic, handler>>}
       ELSE UNCHANGED <<messageHandlers, onCalls>>
    /\ UNCHANGED <<ui, clock, peer, sockets, wsGlobal, qiConnection, installed, sessionStorage,
                   pendingSetup, setupCount, initCount, uuidCount>>

\* off(topic, handler)
Off(topic, handler) ==
    /\ OffEffect(topic, handler)
    /\ last' = [op |-> "off", topic |-> topic, handler |-> handler]

\* the function returned by the installed on(topic, handler):
\* () => qiConnection.off(topic, handler).  The caller holds one for every
\* pair it has registered.
Unsubscribe(topic, handler) ==
    /\ handler \in Range(MapGet(messageHandlers, topic))
    /\ OffEffect(topic, handler)
    /\ last' = [op |-> "unsubscribe", topic |-> topic, handler |-> handler]

\* setupWindowSubscriptions(), run when the `await import(...)` of an
\* initQiConnection call resumes: one on(topic, closure) per lifecycle topic
RECURSIVE OnAll(_, _, _)
OnAll(map, topics, handler) ==
    IF topics = <<>> THEN map
    ELSE OnAll(HandlersAfterOn(map, Head(topics), handler), Tail(topics), handler)

SetupWindowSubscriptions ==
    /\ pendingSetup > 0
    /\ pendingSetup' = pendingSetup - 1
    /\ setupCount' = setupCount + 1
    /\ messageHandlers' = OnAll(messageHandlers, LifecycleTopics, SyncHandler(setupCount + 1))
    /\ last' = [op |-> "setup"]
    /\ UNCHANGED <<ui, clock, peer, sockets, wsGlobal, qiConnection, installed, onCalls, sessionStorage,
                   initCount, uuidCount>>

(***************************************************************************)
(* Inbound frames and the "message" listener.                              *)
(* A frame is its text: not JSON at all, the JSON null, or a JSON object   *)
(* with the keys the listener and the handlers look at.                    *)
(***************************************************************************)
IsSync(h) == \E n \in 1..8 : h = SyncHandler(n)

\* the demo page's subscriptions, in the order of its onMount
DemoSubscriptions ==
    << <<"wm.window.listed", "demo-listed">>, <<"wm.window.opened", "demo-opened">>,
       <<"wm.window.closed", "demo-closed">>, <<"test.pong", "demo-pong">> >>

\* the closure the n-th getWindowState call subscribes
GetStateHandler(n) == <<"getState-1", "getState-2", "getState-3", "getState-4">>[n]

IsGetState(h) == \E n \in 1..4 : h = GetStateHandler(n)

\* the getWindowState call whose closure h is
RequestOf(h) == CHOOSE n \in 1..4 : h = GetStateHandler(n)

\* a member of the parsed frame: undefined when the JSON has no such key
PayloadField(frame, f) == IF f \in DOMAIN frame THEN frame[f] ELSE Undefined

\* handler(envelope) throws: a window state handler and the demo page's
\* "listed" handler read a property of envelope.payload, the getWindowState
\* closure reads envelope.source.window_id; the demo page's other handlers
\* read nothing that can be missing; an application handler throws when it
\* is one of `throwers`
Throws(h, frame, throwers) ==
    IF IsSync(h) \/ h = "demo-listed" THEN frame.payload \in {Undefined, Null}
    ELSE IF IsGetState(h) THEN PayloadField(frame, "source") \in {Undefined, Null}
    ELSE h \in throwers

\* the truthiness of a JSON value
TruthyJson(v) == v \notin Falsy \cup {"false"}

\* a window state handler that does not compare the window ids
SyncMatchesAnyWindow(frame, qi) == TruthyJson(PayloadField(frame, "success"))

\* `envelope.payload.window_id === qiConnection.window_id && envelope.payload.success`
SyncMatches(frame, qi) ==
    /\ PayloadField(frame, "window_id") = qi.window_id
    /\ TruthyJson(PayloadField(frame, "success"))

\* windowState after the window state handler of the frame's topic.  The
\* handlers for hidden, shown, moved, resized and closed only log.  The
\* assignments sit in the `then` of an import() of a module the connection
\* module has imported already, so they run before the next event.
WindowStateAfter(state, frame, qi) ==
    IF ~SyncMatches(frame, qi) THEN state
    ELSE CASE frame.topic = "wm.window.maximized" ->
                [state EXCEPT !.isMaximized = PayloadField(frame, "maximized")]
           [] frame.topic = "wm.window.minimized" ->
                [state EXCEPT !.isMinimized = "true"]
           [] frame.topic = "wm.window.restored" ->
                [state EXCEPT !.isMaximized = "false", !.isMinimized = "false"]
           [] OTHER -> state

\* a "listed" handler that keeps the list it has
DemoWindowsKept(windows, frame) == windows

\* `windows = envelope.payload.windows || []`
DemoWindows(windows, frame) == Or(PayloadField(frame, "windows"), "[]")

\* a getWindowState closure that takes the response of any window
ResponseMatchesAny(frame, qi) == TRUE

\* `envelope.source.window_id === qiConnection.window_id`
ResponseMatches(frame, qi) == PayloadField(frame, "source_window_id") = qi.window_id

\* options.context / options.source when the caller gives none
NoContextOverride == [kind |-> "undefined", project |-> Undefined,
                      entity |-> Undefined, task |-> Undefined]

NoSourceOverride == [kind |-> "undefined", addon |-> Undefined,
                     session_id |-> Undefined, window_id |-> Undefined,
                     user |-> Undefined]

\* emit(topic) and emit(topic, {payload: {}})
DefaultOptions ==
    [payload |-> Undefined, context |-> NoContextOverride, user |-> Undefined,
     reply_to |-> Undefined, source |-> NoSourceOverride]

EmptyPayloadOptions == [DefaultOptions EXCEPT !.payload = EmptyObject]

\* qiConnection.emit(topic, options) called by a handler: the uuids used and
\* the emits made so far are in st
HandlerEmit(st, topic, options, qi, socks, now) ==
    IF ~EmitGuard(qi)
    THEN [st EXCEPT !.emitted = Append(@, [topic |-> topic, outcome |-> "not-connected"])]
    ELSE LET envelope == Envelope(RandomUUID(st.uuid + 1), topic, options, qi,
                                  Timestamp(now))
             s        == qi.socket
             outcome  == IF s = 0 \/ StringifyThrows(envelope) THEN "threw"
                         ELSE SendOutcome(socks[s].readyState)
         IN  [st EXCEPT !.uuid = @ + 1,
                        !.emitted = Append(@, [topic |-> topic, outcome |-> outcome,
                                               envelope |-> envelope])]

\* the handlers of an application that subscribe and unsubscribe inside a
\* handler: "subscriber" registers "late" for the topic of the envelope it
\* is given, "once" unsubscribes itself (as the getWindowState closure does)
ScriptedHandlers == {"subscriber", "once", "late"}

Script(h) ==
    CASE h = "subscriber" -> << <<"on", "late">> >>
      [] h = "once"       -> << <<"off", "once">> >>
      [] OTHER            -> <<>>

\* qiConnection.on(topic, h) called by a handler.  st.pending are the entries
\* of the Set under forEach that are still to be visited, and st.live says
\* that this Set is still the one the Map holds for the topic: forEach visits
\* an entry added to the Set it iterates
OnDuringDispatch(st, topic, frame, h) ==
    [st EXCEPT !.map = HandlersAfterOn(@, topic, h),
               !.pending = IF /\ topic = frame.topic
                              /\ st.live
                              /\ h \notin Range(MapGet(st.map, topic))
                           THEN Append(@, h) ELSE @]

\* qiConnection.off(topic, h) called by a handler: forEach does not visit an
\* entry deleted before its turn; off drops an emptied Set from the Map, and
\* a later on makes a new Set, which is not the one under forEach
OffDuringDispatch(st, topic, frame, h) ==
    LET map == HandlersAfterOff(st.map, topic, h)
    IN  [st EXCEPT !.map = map,
                   !.pending = IF topic = frame.topic /\ st.live
                               THEN SetDelete(@, h) ELSE @,
                   !.live = IF topic = frame.topic THEN @ /\ topic \in DOMAIN map
                            ELSE @]

\* the on and off calls of a scripted handler, in order
RECURSIVE RunScript(_, _, _)
RunScript(script, st, frame) ==
    IF script = <<>> THEN st
    ELSE RunScript(Tail(script),
                   IF Head(script)[1] = "on"
                   THEN OnDuringDispatch(st, frame.topic, frame, Head(script)[2])
                   ELSE OffDuringDispatch(st, frame.topic, frame, Head(script)[2]),
                   frame)

\* what handler(envelope) does to windowState, the demo page, the pending
\* getWindowState calls and the router
HandlerEffect(h, frame, st, qi, socks, now, throwers) ==
    IF Throws(h, frame, throwers) THEN st
    ELSE IF IsSync(h) THEN [st EXCEPT !.ui = WindowStateAfter(@, frame, qi)]
    ELSE IF h = "demo-listed"
    THEN [st EXCEPT !.ui.windows = DemoWindows(@, frame)]
    ELSE IF h \in {"demo-opened", "demo-closed"}
    THEN HandlerEmit(st, "wm.window.list_all", EmptyPayloadOptions, qi, socks, now)
    ELSE IF h = "demo-pong" THEN [st EXCEPT !.ui.pingResponse = frame.payload]
    ELSE IF IsGetState(h)
    THEN IF ResponseMatches(frame, qi)
         THEN \* unsubscribe(); resolve(envelope.payload)
              [OffDuringDispatch(st, "wm.window.state_response", frame, h)
                 EXCEPT !.ui.requests[RequestOf(h)] = frame.payload]
         ELSE st
    ELSE IF h \in ScriptedHandlers THEN RunScript(Script(h), st, frame)
    ELSE st

\* a dispatch that runs the window state logic whether or not a handler is subscribed
DispatchEffectUnrouted(entries, frame, st, qi, socks, now, throwers) ==
    [st EXCEPT !.ui = WindowStateAfter(@, frame, qi)]

\* handlers.forEach over the live Set: `entries` are those still to be
\* visited; the handler at the head is invoked, and what it does to the Set
\* decides what is visited after it.  st.invoked are the handlers invoked,
\* in order, and st carries the effects of their calls.
RECURSIVE DispatchEffect(_, _, _, _, _, _, _)
DispatchEffect(entries, frame, st, qi, socks, now, throwers) ==
    IF entries = <<>> THEN st
    ELSE LET after == HandlerEffect(Head(entries), frame,
                                    [st EXCEPT !.pending = Tail(entries),
                                               !.invoked = Append(@, Head(entries))],
                                    qi, socks, now, throwers)
         IN  DispatchEffect(after.pending, frame, after, qi, socks, now, throwers)

\* handlers.forEach without the inner try/catch: the first throw ends the iteration
RECURSIVE ForEachInvokedUnguarded(_, _, _)
ForEachInvokedUnguarded(handlers, frame, throwers) ==
    IF handlers = <<>> THEN <<>>
    ELSE IF Throws(Head(handlers), frame, throwers)
    THEN <<Head(handlers)>>
    ELSE <<Head(handlers)>> \o ForEachInvokedUnguarded(Tail(handlers), frame, throwers)

\* a listener that runs the iteration over the handlers twice
ForEachInvokedTwice(handlers, frame, throwers) == handlers \o handlers

\* handlers.forEach(handler => { try { handler(envelope) } catch { log } }):
\* the handlers invoked, in order
RECURSIVE ForEachInvoked(_, _, _)
ForEachInvoked(handlers, frame, throwers) ==
    IF handlers = <<>> THEN <<>>
    ELSE IF Throws(Head(handlers), frame, throwers)
    THEN \* caught and logged inside the callback: the iteration goes on
         <<Head(handlers)>> \o ForEachInvoked(Tail(handlers), frame, throwers)
    ELSE <<Head(handlers)>> \o ForEachInvoked(Tail(handlers), frame, throwers)

\* a heartbeat test that knows pong only
IsHeartbeatPongOnly(frame) == frame.pong = "true"

\* `data.pong === true || data.ping === true`
IsHeartbeat(frame) == frame.pong = "true" \/ frame.ping = "true"

\* the "message" listener without its outer try/catch
MessageListenerUncaught(frame, map, throwers) ==
    IF frame.json # "object"
    THEN [outcome |-> "malformed", invoked |-> <<>>, failed |-> {}, escaped |-> TRUE]
    ELSE IF IsHeartbeat(frame)
    THEN [outcome |-> "heartbeat", invoked |-> <<>>, failed |-> {}, escaped |-> FALSE]
    ELSE LET invoked == ForEachInvoked(MapGet(map, frame.topic), frame, throwers)
         IN  [outcome |-> "envelope", invoked |-> invoked,
              failed  |-> {h \in Range(invoked) : Throws(h, frame, throwers)},
              escaped |-> FALSE]

\* the "message" listener applied to one frame
MessageListener(frame, map, throwers) ==
    IF frame.json # "object"
    THEN \* JSON.parse throws, or `data.pong` of null throws: the outer catch logs
         [outcome |-> "malformed", invoked |-> <<>>, failed |-> {}, escaped |-> FALSE]
    ELSE IF IsHeartbeat(frame)
    THEN [outcome |-> "heartbeat", invoked |-> <<>>, failed |-> {}, escaped |-> FALSE]
    ELSE LET invoked == ForEachInvoked(MapGet(map, frame.topic), frame, throwers)
         IN  [outcome |-> "envelope", invoked |-> invoked,
              failed  |-> {h \in Range(invoked) : Throws(h, frame, throwers)},
              escaped |-> FALSE]

\* a "message" event on handle s; `last` keeps the frame, the kind of the
\* frame received just before (if the previous step was a "message" event
\* too) and what the listener did
SocketMessage(s, frame, throwers) ==
    /\ s \in DOMAIN sockets
    /\ sockets[s].readyState = OPEN
    /\ \E result \in {MessageListener(frame, messageHandlers, throwers)} :
       \E effect \in {DispatchEffect(result.invoked, frame,
                                     [ui |-> ui, map |-> messageHandlers,
                                      emitted |-> <<>>, uuid |-> uuidCount,
                                      invoked |-> <<>>, pending |-> <<>>,
                                      live |-> frame.topic \in DOMAIN messageHandlers],
                                     qiConnection, sockets, clock, throwers)} :
        /\ effect.uuid <= MaxUuids
        /\ ui' = effect.ui
        /\ messageHandlers' = effect.map
        /\ onCalls' = IF effect.map = messageHandlers THEN onCalls
                      ELSE \* a handler has unsubscribed itself
                           {c \in onCalls : c[2] \in Range(MapGet(effect.map, c[1]))}
        /\ uuidCount' = effect.uuid
        /\ last' = [op |-> "message", socket |-> s, frame |-> frame,
                    after |-> IF last.op = "message" THEN last.frame.json ELSE "none",
                    result |-> [result EXCEPT !.invoked = effect.invoked],
                    emitted |-> effect.emitted]
        /\ UNCHANGED <<clock, peer, sockets, wsGlobal, qiConnection, installed,
                       sessionStorage, pendingSetup, setupCount, initCount>>

(***************************************************************************)
(* The demo page and getWindowState, the callers of on and emit.           *)
(***************************************************************************)
RECURSIVE OnEach(_, _)
OnEach(map, subscriptions) ==
    IF subscriptions = <<>> THEN map
    ELSE OnEach(HandlersAfterOn(map, Head(subscriptions)[1], Head(subscriptions)[2]),
                Tail(subscriptions))

RECURSIVE OffEach(_, _)
OffEach(map, subscriptions) ==
    IF subscriptions = <<>> THEN map
    ELSE OffEach(HandlersAfterOff(map, Head(subscriptions)[1], Head(subscriptions)[2]),
                 Tail(subscriptions))

\* onMount of the demo page: four qiConnection.on calls, which register with
\* the router once initQiConnection has installed it and only warn before
Mount ==
    /\ ui.mounted = "no"
    /\ messageHandlers' = IF installed THEN OnEach(messageHandlers, DemoSubscriptions)
                          ELSE messageHandlers
    /\ ui' = [ui EXCEPT !.mounted = IF installed THEN "router" ELSE "placeholder",
                        !.windows = "[]", !.pingResponse = Null]
    /\ last' = [op |-> "mount"]
    /\ UNCHANGED <<clock, peer, sockets, wsGlobal, qiConnection, installed, onCalls,
                   sessionStorage, pendingSetup, setupCount, initCount, uuidCount>>

\* onDestroy of the demo page: the functions the on calls returned
Unmount ==
    /\ ui.mounted # "no"
    /\ messageHandlers' = IF ui.mounted = "router"
                          THEN OffEach(messageHandlers, DemoSubscriptions)
                          ELSE messageHandlers
    /\ ui' = [ui EXCEPT !.mounted = "no"]
    /\ last' = [op |-> "unmount"]
    /\ UNCHANGED <<clock, peer, sockets, wsGlobal, qiConnection, installed, onCalls,
                   sessionStorage, pendingSetup, setupCount, initCount, uuidCount>>

\* a window script: qiConnection.emit(topic), then the assignments to windowState
WindowScript(op, topic, state) ==
    LET st == HandlerEmit([emitted |-> <<>>, uuid |-> uuidCount], topic, DefaultOptions,
                          qiConnection, sockets, clock)
    IN  /\ st.uuid <= MaxUuids
        /\ uuidCount' = st.uuid
        /\ ui' = state
        /\ last' = [op |-> op, emitted |-> st.emitted]
        /\ UNCHANGED <<clock, peer, sockets, wsGlobal, qiConnection, installed,
                       messageHandlers, onCalls, sessionStorage, pendingSetup,
                       setupCount, initCount>>

minimizeWindow ==
    WindowScript("minimizeWindow", "wm.window.minimize", [ui EXCEPT !.isMinimized = "true"])

maximizeWindow ==
    WindowScript("maximizeWindow", "wm.window.maximize", [ui EXCEPT !.isMaximized = "true"])

restoreWindow ==
    WindowScript("restoreWindow", "wm.window.restore",
                 [ui EXCEPT !.isMaximized = "false", !.isMinimized = "false"])

MaxRequests == 2

MaxClock == 2

\* the wall clock moves on by a millisecond
Tick ==
    /\ clock < MaxClock
    /\ clock' = clock + 1
    /\ last' = [op |-> "tick"]
    /\ UNCHANGED <<ui, peer, sockets, wsGlobal, qiConnection, installed, messageHandlers,
                   onCalls, sessionStorage, pendingSetup, setupCount, initCount,
                   uuidCount>>

\* getWindowState(): on("wm.window.state_response", closure), then
\* emit("wm.window.get_state"); the promise is pending
GetWindowState ==
    LET n == Len(ui.requests) + 1
        st == HandlerEmit([emitted |-> <<>>, uuid |-> uuidCount], "wm.window.get_state",
                          DefaultOptions, qiConnection, sockets, clock)
    IN  /\ n <= MaxRequests
        /\ st.uuid <= MaxUuids
        /\ messageHandlers' =
              IF installed
              THEN HandlersAfterOn(messageHandlers, "wm.window.state_response",
                                   GetStateHandler(n))
              ELSE messageHandlers
        /\ ui' = [ui EXCEPT !.requests = Append(@, "pending")]
        /\ uuidCount' = st.uuid
        /\ last' = [op |-> "getWindowState", request |-> n, emitted |-> st.emitted]
        /\ UNCHANGED <<clock, peer, sockets, wsGlobal, qiConnection, installed, onCalls,
                       sessionStorage, pendingSetup, setupCount, initCount>>

(***************************************************************************)
(* Inputs.                                                                 *)
(***************************************************************************)
\* URLSearchParams.get gives null for a parameter that is absent
NoUrlContext == [f \in ContextFields |-> Null]

\* the surroundings of an initQiConnection call: a window opened by the host
\* without and with window_id, session_id and context parameters
HostEnvironment ==
    [session_id |-> "S1", window_id |-> "W1", pathSegment |-> "addon-skeleton",
     urlContext |-> [project |-> "A", entity |-> "B", task |-> Null],
     qi_context |-> NoContext, storage |-> "ok"]

Environments ==
    { [session_id |-> Null, window_id |-> Null, pathSegment |-> "addon-skeleton",
       urlContext |-> NoUrlContext, qi_context |-> NoContext, storage |-> "ok"],
      HostEnvironment }

\* windows opened with and without session_id and window_id parameters (absent,
\* empty, or a value), at the root path or under an addon, on a sessionStorage
\* that works, that throws on access, or whose context record is not JSON
IdentityEnvironments ==
    [session_id : {Null, EmptyString, "S1", "S2"},
     window_id : {Null, EmptyString, "W1"},
     pathSegment : {Undefined, "addon-skeleton"},
     urlContext : {NoUrlContext}, qi_context : {NoContext},
     storage : {"ok", "unavailable", "corrupt"}]

\* windows whose URL carries an empty or a given project, with and without an
\* entity, and whose page sets window.qi_context or not
DetectEnvironments ==
    [session_id : {"S1"}, window_id : {"W1"}, pathSegment : {"addon-skeleton"},
     urlContext : [project : {Null, EmptyString, "A"}, entity : {Null, "B"},
                   task : {Null}],
     qi_context : {NoContext, [project |-> "G", entity |-> Undefined, task |-> "G"]},
     storage : {"ok"}]

\* the second window, opened by the host with another window_id, without and
\* with a context parameter
PeerEnvironments ==
    { [session_id |-> "S1", window_id |-> "W2", pathSegment |-> "addon-skeleton",
       urlContext |-> u, qi_context |-> NoContext, storage |-> "ok"]
      : u \in {NoUrlContext, [project |-> Null, entity |-> "P", task |-> Null]} }

\* emit(topic) and emit(topic, {payload})
PlainOptions ==
    { [payload |-> p, context |-> NoContextOverride, user |-> Undefined,
       reply_to |-> Undefined, source |-> NoSourceOverride]
      : p \in {Undefined, Unserialisable} }

\* emit(topic, {context: {...}}): every field absent, null or a value
ContextOverrides ==
    [kind : {"object"}, project : {Undefined, Null, "C"},
     entity : {Undefined, Null, "C"}, task : {Undefined, Null, "C"}]

ContextOptions ==
    { [payload |-> Undefined, context |-> c, user |-> Undefined,
       reply_to |-> Undefined, source |-> NoSourceOverride]
      : c \in ContextOverrides \cup {NoContextOverride} }

\* emit(topic, {source: {...}, user}): power routing
SourceOverrides ==
    [kind : {"object"}, addon : {Undefined, EmptyString, "other-addon"},
     session_id : {Undefined, Null, "S2"}, window_id : {Undefined, Null, "W2"},
     user : {Undefined, Null, "U2"}]

SourceOptions ==
    { [payload |-> Undefined, context |-> NoContextOverride, user |-> u,
       reply_to |-> r, source |-> src]
      : u \in {Undefined, "U3"}, r \in {Undefined, "uuid-0"},
        src \in SourceOverrides \cup {NoSourceOverride} }

\* emit(topic, {payload, context, user}): normal routing
NormalOptions ==
    { [payload |-> p, context |-> c, user |-> u, reply_to |-> Undefined,
       source |-> NoSourceOverride]
      : p \in {Undefined, "payload"}, u \in {Undefined, "U3"},
        c \in {NoContextOverride,
               [kind |-> "object", project |-> "C", entity |-> Undefined,
                task |-> Null]} }

\* updateContext(newContext): every field absent, null, empty or a value
ContextUpdates ==
    [ContextFields -> {Undefined, Null, EmptyString, "X"}] \ {NoContext}

\* updateContext calls that name one field
FieldUpdates(values) ==
    { [f \in ContextFields |-> IF f = g THEN v ELSE Undefined]
      : g \in ContextFields, v \in values }

UserUpdates == {"U1"}

EmitTopics == {"wm.window.get_state", "wm.window.list_all"}

\* the frames a server sends
Frame(json, ping, pong, topic, payload) ==
    [json |-> json, ping |-> ping, pong |-> pong, topic |-> topic, payload |-> payload]

\* text that is not JSON, and the JSON text `null`
MalformedFrames ==
    {Frame(j, Undefined, Undefined, Undefined, Undefined) : j \in {"invalid", "null"}}

\* {"ping": true} and {"pong": true}, bare or with the keys of an envelope
HeartbeatFrames ==
    {Frame("object", "true", Undefined, t, EmptyObject) : t \in {Undefined, "wm.window.listed"}}
    \cup
    {Frame("object", Undefined, "true", t, EmptyObject) : t \in {Undefined, "wm.window.listed"}}

\* envelopes: for an application topic, for a lifecycle topic (with and
\* without a payload), and without a topic
EnvelopeFrames ==
    {Frame("object", Undefined, Undefined, t, EmptyObject) : t \in Topics \cup {Undefined}}
    \cup
    {Frame("object", Undefined, Undefined, "wm.window.maximized", p) :
        p \in {Undefined, EmptyObject}}

Frames == MalformedFrames \cup HeartbeatFrames \cup EnvelopeFrames

\* an envelope whose payload is an object with the members the window state
\* handlers read
LifecycleFrame(topic, window_id, success, maximized) ==
    [json |-> "object", ping |-> Undefined, pong |-> Undefined, topic |-> topic,
     payload |-> "payload", window_id |-> window_id, success |-> success,
     maximized |-> maximized]

\* lifecycle envelopes for this window, for another one and without a window
\* id, with success true, false and absent; and one without a payload
LifecycleFrames ==
    { LifecycleFrame(t, w, s, m) :
        t \in {"wm.window.maximized", "wm.window.minimized", "wm.window.restored",
               "wm.window.hidden", "wm.window.closed"},
        w \in {"W1", "W2", Undefined}, s \in {"true", "false", Undefined},
        m \in {"true", "false"} }
    \cup {Frame("object", Undefined, Undefined, "wm.window.minimized", Undefined)}

(***************************************************************************)
(* Specifications.                                                         *)
(***************************************************************************)
SocketEvent ==
    \E s \in 1..MaxSockets :
        SocketOpen(s) \/ SocketClosing(s) \/ SocketClose(s) \/ SocketError(s)

Initialise == \E env \in Environments : InitQiConnection(env)

InitialiseFromHost == InitQiConnection(HostEnvironment)

\* transport: initialisation, the life of the handles, and plain emits
Next ==
    \/ Initialise
    \/ SetupWindowSubscriptions
    \/ SocketEvent
    \/ \E topic \in EmitTopics, options \in PlainOptions \cup {NullOptions} :
          Emit(topic, options)

Spec == Init /\ [][Next]_vars

\* router: subscriptions and inbound frames on one connection
Subscription ==
    \E topic \in Topics, handler \in AppHandlers :
        On(topic, handler) \/ Off(topic, handler) \/ Unsubscribe(topic, handler)

Inbound ==
    \E s \in 1..MaxSockets, frame \in Frames, throwers \in SUBSET AppHandlers :
        /\ throwers \subseteq Range(MapGet(messageHandlers, frame.topic))
        /\ SocketMessage(s, frame, throwers)

NextRouter ==
    \/ InitialiseFromHost
    \/ SetupWindowSubscriptions
    \/ \E s \in 1..MaxSockets : SocketOpen(s)
    \/ Subscription
    \/ Inbound

SpecRouter == Init /\ [][NextRouter]_vars

\* emitter, business context
NextContext ==
    \/ InitialiseFromHost
    \/ \E s \in 1..MaxSockets : SocketOpen(s)
    \/ \E newContext \in ContextUpdates : UpdateContext(newContext)
    \/ \E options \in ContextOptions : Emit("wm.window.get_state", options)

SpecContext == Init /\ [][NextContext]_vars

\* emitter, routing source
NextSource ==
    \/ InitialiseFromHost
    \/ \E s \in 1..MaxSockets : SocketOpen(s)
    \/ \E newUser \in UserUpdates : UpdateUser(newUser)
    \/ \E options \in SourceOptions \cup NormalOptions :
          Emit("wm.window.get_state", options)

SpecSource == Init /\ [][NextSource]_vars

\* identity resolution: initQiConnection calls of windows on one sessionStorage
NextIdentity ==
    \/ \E env \in IdentityEnvironments : InitQiConnection(env)
    \/ SocketEvent

SpecIdentity == Init /\ [][NextIdentity]_vars

\* context store: detection at initQiConnection, updateContext before and after
NextDetect ==
    \/ \E env \in DetectEnvironments : InitQiConnection(env)
    \/ \E newContext \in ContextUpdates : UpdateContext(newContext)

SpecDetect == Init /\ [][NextDetect]_vars

\* two windows on one sessionStorage
NextWindows ==
    \/ InitialiseFromHost
    \/ \E newContext \in FieldUpdates({Null, EmptyString, "X"}) : UpdateContext(newContext)
    \/ \E env \in PeerEnvironments : PeerInitQiConnection(env)
    \/ \E newContext \in FieldUpdates({Null, "Q"}) : PeerUpdateContext(newContext)

SpecWindows == Init /\ [][NextWindows]_vars

\* the window lists a "listed" payload carries
WindowLists == {"[]", "[W1]", "[W1,W2]"}

\* what the server sends to the demo page: opened, closed and pong, with and
\* without a payload; listed with a list, without one and without a payload
DemoFrames ==
    { Frame("object", Undefined, Undefined, t, p) :
        t \in {"wm.window.opened", "wm.window.closed", "test.pong"},
        p \in {Undefined, "payload"} }
    \cup
    { [json |-> "object", ping |-> Undefined, pong |-> Undefined,
       topic |-> "wm.window.listed", payload |-> "payload", windows |-> l] :
        l \in WindowLists \cup {Undefined} }
    \cup {Frame("object", Undefined, Undefined, "wm.window.listed", Undefined)}

\* the demo page: mounted before or after initQiConnection, its Create
\* Window button, and the server's envelopes
NextDemo ==
    \/ InitialiseFromHost
    \/ \E s \in 1..MaxSockets : SocketOpen(s) \/ SocketClose(s)
    \/ Mount
    \/ Unmount
    \/ Emit("wm.window.open", EmptyPayloadOptions)
    \/ \E s \in 1..MaxSockets, frame \in DemoFrames : SocketMessage(s, frame, {})

SpecDemo == Init /\ [][NextDemo]_vars

\* state responses: of this window and of another one, and without a source
ResponseFrames ==
    { [json |-> "object", ping |-> Undefined, pong |-> Undefined,
       topic |-> "wm.window.state_response", payload |-> p, source |-> "object",
       source_window_id |-> w] :
        p \in {"P1", "P2"}, w \in {"W1", "W2", Undefined} }
    \cup
    { [json |-> "object", ping |-> Undefined, pong |-> Undefined,
       topic |-> "wm.window.state_response", payload |-> "P1", source |-> src,
       source_window_id |-> Undefined] : src \in {Undefined, Null} }

\* getWindowState calls and the server's state responses
NextRequest ==
    \/ InitialiseFromHost
    \/ \E s \in 1..MaxSockets : SocketOpen(s) \/ SocketClose(s)
    \/ GetWindowState
    \/ \E s \in 1..MaxSockets, frame \in ResponseFrames : SocketMessage(s, frame, {})

SpecRequest == Init /\ [][NextRequest]_vars

\* emit(topic, options) with every field given and left out; a payload that
\* is JSON and one that is not
CodecOptions ==
    { [payload |-> p, context |-> c, user |-> u, reply_to |-> r, source |-> src]
      : p \in {Undefined, "payload", LossyPayload},
        c \in {NoContextOverride,
               [kind |-> "object", project |-> "C", entity |-> Null,
                task |-> Undefined]},
        u \in {Undefined, "U3"}, r \in {Undefined, "uuid-0"},
        src \in {NoSourceOverride,
                 [kind |-> "object", addon |-> "other-addon", session_id |-> Undefined,
                  window_id |-> "W2", user |-> Null]} }

\* the wire format: emits one after another, within a millisecond and not
NextCodec ==
    \/ InitialiseFromHost
    \/ \E s \in 1..MaxSockets : SocketOpen(s)
    \/ Tick
    \/ \E topic \in EmitTopics, options \in CodecOptions : Emit(topic, options)

SpecCodec == Init /\ [][NextCodec]_vars

\* lifecycle envelopes for this window and for another one
ConfirmationFrames ==
    { LifecycleFrame(t, w, s, "true") :
        t \in {"wm.window.maximized", "wm.window.minimized", "wm.window.restored"},
        w \in {"W1", "W2"}, s \in {"true", "false"} }

\* the window buttons and the server's confirmations
NextScripts ==
    \/ InitialiseFromHost
    \/ SetupWindowSubscriptions
    \/ \E s \in 1..MaxSockets : SocketOpen(s) \/ SocketClose(s)
    \/ minimizeWindow
    \/ maximizeWindow
    \/ restoreWindow
    \/ \E s \in 1..MaxSockets, frame \in ConfirmationFrames : SocketMessage(s, frame, {})

SpecScripts == Init /\ [][NextScripts]_vars

\* a reconnect: the application subscribes while the first handle is the
\* current one and not again; the handle closes or fails; initQiConnection
\* makes a new one; envelopes arrive on either
OnFirstHandle(topic, handler) == wsGlobal = 1 /\ On(topic, handler)

NextReconnect ==
    \/ InitialiseFromHost
    \/ \E s \in 1..MaxSockets : SocketOpen(s) \/ SocketClose(s) \/ SocketError(s)
    \/ \E topic \in Topics, handler \in AppHandlers :
          OnFirstHandle(topic, handler) \/ Off(topic, handler)
    \/ \E s \in 1..MaxSockets, topic \in Topics :
          SocketMessage(s, Frame("object", Undefined, Undefined, topic, EmptyObject), {})

SpecReconnect == Init /\ [][NextReconnect]_vars

\* handlers that subscribe and unsubscribe during a dispatch
NextDispatch ==
    \/ InitialiseFromHost
    \/ \E s \in 1..MaxSockets : SocketOpen(s)
    \/ \E handler \in {"subscriber", "once", "h1"} : On("wm.window.listed", handler)
    \/ Off("wm.window.listed", "late")
    \/ \E s \in 1..MaxSockets :
          SocketMessage(s, Frame("object", Undefined, Undefined, "wm.window.listed",
                                 EmptyObject), {})

SpecDispatch == Init /\ [][NextDispatch]_vars

\* an application that subscribes and unsubscribes before initQiConnection
\* only, and the envelopes received afterwards
OnBeforeInit(topic, handler) == ~installed /\ On(topic, handler)

OffBeforeInit(topic, handler) == ~installed /\ Off(topic, handler)

NextStub ==
    \/ \E topic \in Topics, handler \in AppHandlers :
          OnBeforeInit(topic, handler) \/ OffBeforeInit(topic, handler)
    \/ InitialiseFromHost
    \/ SetupWindowSubscriptions
    \/ \E s \in 1..MaxSockets : SocketOpen(s)
    \/ \E s \in 1..MaxSockets, frame \in Frames : SocketMessage(s, frame, {})

SpecStub == Init /\ [][NextStub]_vars

\* a connection that is being established while initQiConnection is called
\* again, on a network where every handshake succeeds: no "error" event, and
\* the "open" event of a CONNECTING handle is delivered in the end
NextOpens ==
    \/ InitialiseFromHost
    \/ \E s \in 1..MaxSockets : SocketOpen(s) \/ SocketClosing(s) \/ SocketClose(s)
    \/ \E topic \in EmitTopics, options \in NormalOptions : Emit(topic, options)

SpecOpens ==
    Init /\ [][NextOpens]_vars /\ WF_vars(\E s \in 1..MaxSockets : SocketOpen(s))

\* windows of one session opened at the root path and under two addons, this
\* one on a sessionStorage that works or throws
NamespaceEnvironments ==
    [session_id : {"S1"}, window_id : {"W1"},
     pathSegment : {Undefined, "addon-skeleton", "other-addon"},
     urlContext : {NoUrlContext}, qi_context : {NoContext},
     storage : {"ok", "unavailable"}]

PeerNamespaceEnvironments ==
    [session_id : {"S1"}, window_id : {"W2"},
     pathSegment : {Undefined, "addon-skeleton", "other-addon"},
     urlContext : {NoUrlContext}, qi_context : {NoContext},
     storage : {"ok"}]

\* addon resolution: two windows on one sessionStorage, each initialised at
\* any of the paths, and this one emitting in normal mode
NextNamespace ==
    \/ \E env \in NamespaceEnvironments : InitQiConnection(env)
    \/ \E env \in PeerNamespaceEnvironments : PeerInitQiConnection(env)
    \/ \E s \in 1..MaxSockets : SocketOpen(s) \/ SocketClose(s)
    \/ \E topic \in EmitTopics, options \in NormalOptions : Emit(topic, options)

SpecNamespace == Init /\ [][NextNamespace]_vars

\* window state synchronisation: lifecycle envelopes before and after
\* setupWindowSubscriptions
NextSync ==
    \/ InitialiseFromHost
    \/ SetupWindowSubscriptions
    \/ \E s \in 1..MaxSockets : SocketOpen(s)
    \/ \E s \in 1..MaxSockets, frame \in LifecycleFrames : SocketMessage(s, frame, {})

SpecSync == Init /\ [][NextSync]_vars

(***************************************************************************)
(* Properties.                                                             *)
(***************************************************************************)
LiveHandles == {s \in DOMAIN sockets : sockets[s].readyState \in {CONNECTING, OPEN}}

\* the last step was an emit call that handed a frame to an open socket
EmitSent == last.op = "emit" /\ last.outcome = "sent"

\* the last step was a "message" event whose frame is an envelope: a JSON
\* object that is not a heartbeat
EnvelopeReceived ==
    /\ last.op = "message"
    /\ last.frame.json = "object"
    /\ last.frame.ping # "true"
    /\ last.frame.pong # "true"

\* the handlers registered for the topic of the frame of the last step
Registered == MapGet(messageHandlers, last.frame.topic)

Count(seq, h) == Cardinality({i \in DOMAIN seq : seq[i] = h})

\* C1: an emit call made while qiConnection.connected is false hands no frame
\* to the socket and generates no envelope; a frame goes out only inside an
\* emit call that saw connected = true, one frame per call.
C1_EmitWhileDisconnectedIsDropped ==
    (last.op = "emit" /\ ~qiConnection.connected)
        => (last.outcome = "not-connected" /\ "envelope" \notin DOMAIN last)

\* C1 witness: an emit was dropped although the current handle is OPEN
\* (connected was cleared by the late close event of a replaced handle)
C1_Witness ==
    /\ last.op = "emit"
    /\ last.outcome = "not-connected"
    /\ wsGlobal # 0
    /\ sockets[wsGlobal].readyState = OPEN

\* C2: a step constructs a WebSocket only if window.__qiConnection was absent,
\* CLOSED or CLOSING; an initQiConnection call that finds it CONNECTING or OPEN
\* constructs none and leaves qiConnection.socket on that handle; and at most
\* one handle is CONNECTING or OPEN at any time.
C2_HandleReuse ==
    /\ [][ /\ Len(sockets') > Len(sockets)
                => \/ wsGlobal = 0
                   \/ sockets[wsGlobal].readyState \in {CLOSED, CLOSING}
           /\ (/\ last'.op = "init"
               /\ wsGlobal # 0
               /\ sockets[wsGlobal].readyState \in {CONNECTING, OPEN})
                => /\ sockets' = sockets
                   /\ wsGlobal' = wsGlobal
                   /\ qiConnection'.socket = wsGlobal ]_vars
    /\ [](Cardinality(LiveHandles) <= 1)

\* C2 witness: a second initQiConnection reused the one live handle
C2_Witness ==
    /\ last.op = "init"
    /\ initCount = 2
    /\ Len(sockets) = 1
    /\ qiConnection.socket = 1
    /\ sockets[1].readyState = OPEN

\* C3: for every dispatched envelope, each handler is invoked once if it is
\* registered for the envelope's topic and not at all otherwise, however many
\* times on was called for it.
C3_OnIsIdempotent ==
    EnvelopeReceived =>
        \A h \in AppHandlers \cup {SyncHandler(n) : n \in 1..MaxInits} :
            Count(last.result.invoked, h) = IF h \in Range(Registered) THEN 1 ELSE 0

\* C3 witness: h1 was registered by two on calls and an envelope was dispatched to it
C3_Witness ==
    /\ EnvelopeReceived
    /\ <<last.frame.topic, "h1">> \in onCalls
    /\ Count(last.result.invoked, "h1") = 1

\* C4: no topic of the handler map has an empty handler set; after off or an
\* unsubscribe function the handler is not registered for the topic; and a
\* dispatch invokes registered handlers only.
C4_OffRemovesHandlerAndTopic ==
    /\ \A t \in DOMAIN messageHandlers : messageHandlers[t] # <<>>
    /\ last.op \in {"off", "unsubscribe"}
          => last.handler \notin Range(MapGet(messageHandlers, last.topic))
    /\ last.op = "message"
          => Range(last.result.invoked) \subseteq Range(Registered)

\* C4 witness: an unsubscribe function removed the last handler of its topic
\* while the other topic keeps a handler
C4_Witness ==
    /\ last.op = "unsubscribe"
    /\ last.topic \notin DOMAIN messageHandlers
    /\ \E t \in Topics : t \in DOMAIN messageHandlers

\* C5: whichever handlers throw, every handler registered for the envelope's
\* topic is invoked, nothing escapes the message listener, and the step
\* changes neither the handles, the connection state nor the handler map.
C5_HandlerFailureIsIsolated ==
    /\ [](EnvelopeReceived
            => /\ last.result.invoked = Registered
               /\ ~last.result.escaped)
    /\ [][last'.op = "message"
            => UNCHANGED <<sockets, wsGlobal, qiConnection, messageHandlers>>]_vars

\* C5 witness: the first of two handlers threw and the second was invoked
C5_Witness ==
    /\ EnvelopeReceived
    /\ Len(last.result.invoked) = 2
    /\ last.result.failed = {last.result.invoked[1]}

\* C6: a frame with ping === true or pong === true invokes no handler and
\* changes neither the handler map nor the connected flag.
C6_HeartbeatIsSwallowed ==
    /\ []((/\ last.op = "message"
           /\ last.frame.json = "object"
           /\ (last.frame.ping = "true" \/ last.frame.pong = "true"))
            => last.result.invoked = <<>>)
    /\ [][(/\ last'.op = "message"
           /\ last'.frame.json = "object"
           /\ (last'.frame.ping = "true" \/ last'.frame.pong = "true"))
            => /\ messageHandlers' = messageHandlers
               /\ qiConnection'.connected = qiConnection.connected]_vars

\* C6 witness: a ping frame carrying a topic that has a registered handler
C6_Witness ==
    /\ last.op = "message"
    /\ last.frame.ping = "true"
    /\ last.frame.pong # "true"
    /\ Registered # <<>>

\* C7: a frame that is not JSON invokes no handler, is caught inside the
\* listener, changes neither the handles nor the connected flag, and an
\* envelope received right after it is dispatched to all its topic's handlers.
C7_MalformedFrameIsDropped ==
    /\ []((last.op = "message" /\ last.frame.json = "invalid")
            => /\ last.result.invoked = <<>>
               /\ ~last.result.escaped)
    /\ []((EnvelopeReceived /\ last.after = "invalid")
            => last.result.invoked = Registered)
    /\ [][(last'.op = "message" /\ last'.frame.json = "invalid")
            => UNCHANGED <<sockets, wsGlobal, qiConnection, messageHandlers>>]_vars

\* C7 witness: an envelope was dispatched to a handler right after a frame that
\* was not JSON, on the same open handle
C7_Witness ==
    /\ EnvelopeReceived
    /\ last.after = "invalid"
    /\ last.result.invoked # <<>>
    /\ sockets[last.socket].readyState = OPEN
    /\ qiConnection.connected

\* C8 as stated: with a context override, a field the override leaves
\* undefined is sent as the stored Context's field, whatever that is.
C8_OverrideFallsBackToStoredField ==
    (EmitSent /\ last.options.context.kind = "object") =>
        \A f \in ContextFields :
            last.envelope.context[f] =
                IF last.options.context[f] # Undefined
                THEN last.options.context[f]
                ELSE qiConnection.context[f]

\* C8 amended: with a context override, each field of the sent context is the
\* override's field when that is not undefined (an explicit null wins), and
\* otherwise the stored field when that is truthy and null when it is not.
C8_OverrideFallsBackToTruthyStoredField ==
    (EmitSent /\ last.options.context.kind = "object") =>
        \A f \in ContextFields :
            last.envelope.context[f] =
                IF last.options.context[f] # Undefined
                THEN last.options.context[f]
                ELSE IF Truthy(qiConnection.context[f])
                THEN qiConnection.context[f]
                ELSE Null

\* C8 witness: stored {project: A, entity: B, task: null} and the override
\* {project: C} were sent as {project: C, entity: B, task: null}
C8_Witness ==
    /\ EmitSent
    /\ qiConnection.context = [project |-> "A", entity |-> "B", task |-> Null]
    /\ last.options.context = [kind |-> "object", project |-> "C",
                               entity |-> Undefined, task |-> Undefined]
    /\ last.envelope.context = [project |-> "C", entity |-> "B", task |-> Null]

\* C9 as stated: without a context override the sent context is
\* qiConnection.context itself.
C9_DefaultContextIsStoredVerbatim ==
    (EmitSent /\ last.options.context.kind = "undefined") =>
        last.envelope.context = qiConnection.context

\* C9 amended: without a context override, each of project, entity and task of
\* the sent context is the stored field when that is truthy, and null when it
\* is not (a stored empty string is sent as null).
C9_DefaultContextIsStoredOrNull ==
    (EmitSent /\ last.options.context.kind = "undefined") =>
        /\ DOMAIN last.envelope.context = ContextFields
        /\ \A f \in ContextFields :
              /\ Truthy(qiConnection.context[f])
                    => last.envelope.context[f] = qiConnection.context[f]
              /\ ~Truthy(qiConnection.context[f])
                    => last.envelope.context[f] = Null

\* C9 witness: a context changed by updateContext was sent without an override
C9_Witness ==
    /\ EmitSent
    /\ last.options.context.kind = "undefined"
    /\ qiConnection.context = [project |-> "X", entity |-> "B", task |-> "X"]
    /\ last.envelope.context = qiConnection.context

\* C10: a source override that sets window_id only, with no user, is sent with
\* that window_id and with the local session_id and addon.
C10_SourceOverrideKeepsLocalIdentity ==
    (/\ EmitSent
     /\ last.options.source.kind = "object"
     /\ last.options.source.window_id # Undefined
     /\ last.options.source.addon = Undefined
     /\ last.options.source.session_id = Undefined
     /\ last.options.source.user = Undefined
     /\ last.options.user = Undefined)
        => /\ last.envelope.source.window_id = last.options.source.window_id
           /\ last.envelope.source.session_id = qiConnection.session_id
           /\ last.envelope.source.addon = qiConnection.addon

\* C10 witness: session S1 with the override {window_id: W2} was sent as
\* source.window_id W2, source.session_id S1
C10_Witness ==
    /\ EmitSent
    /\ qiConnection.session_id = "S1"
    /\ qiConnection.window_id = "W1"
    /\ last.options.source = [kind |-> "object", addon |-> Undefined,
                              session_id |-> Undefined, window_id |-> "W2",
                              user |-> Undefined]
    /\ last.options.user = Undefined
    /\ last.envelope.source.window_id = "W2"
    /\ last.envelope.source.session_id = "S1"
    /\ last.envelope.source.addon = "addon-skeleton"

\* C11 (as stated): with a source override, addon and session_id are the
\* override's value or else the local one, window_id is the override's unless
\* undefined, and source.user is the override's user, or else the local
\* qiConnection.user, or else the user argument of the call, or else null.
C11_SourceUserPrefersLocalUser ==
    (EmitSent /\ last.options.source.kind = "object")
        => LET override == last.options.source
               argument == Default(last.options.user, Null)
               sent     == last.envelope.source
           IN  /\ sent.addon =
                     (IF Truthy(override.addon) THEN override.addon
                      ELSE qiConnection.addon)
               /\ sent.session_id =
                     (IF Truthy(override.session_id) THEN override.session_id
                      ELSE qiConnection.session_id)
               /\ sent.window_id =
                     (IF override.window_id # Undefined THEN override.window_id
                      ELSE qiConnection.window_id)
               /\ sent.user =
                     (IF override.user # Undefined THEN override.user
                      ELSE IF Truthy(qiConnection.user) THEN qiConnection.user
                      ELSE IF Truthy(argument) THEN argument
                      ELSE Null)

\* C11 (amended): the same for addon, session_id and window_id; source.user is
\* the override's user unless undefined, or else the user argument of the
\* call when truthy, or else the local qiConnection.user when truthy, or else
\* null: the argument comes before the local user.
C11_SourceUserPrefersArgument ==
    (EmitSent /\ last.options.source.kind = "object")
        => LET override == last.options.source
               argument == Default(last.options.user, Null)
               sent     == last.envelope.source
           IN  /\ sent.addon =
                     (IF Truthy(override.addon) THEN override.addon
                      ELSE qiConnection.addon)
               /\ sent.session_id =
                     (IF Truthy(override.session_id) THEN override.session_id
                      ELSE qiConnection.session_id)
               /\ sent.window_id =
                     (IF override.window_id # Undefined THEN override.window_id
                      ELSE qiConnection.window_id)
               /\ sent.user =
                     (IF override.user # Undefined THEN override.user
                      ELSE IF Truthy(argument) THEN argument
                      ELSE IF Truthy(qiConnection.user) THEN qiConnection.user
                      ELSE Null)

\* C11 witness: local user U1, user argument U3 and an override without user
\* (and with an empty addon) were sent as source.user U3 with the local addon
C11_Witness ==
    /\ EmitSent
    /\ qiConnection.user = "U1"
    /\ last.options.user = "U3"
    /\ last.options.source = [kind |-> "object", addon |-> EmptyString,
                              session_id |-> Null, window_id |-> "W2",
                              user |-> Undefined]
    /\ last.envelope.source = [addon |-> "addon-skeleton", session_id |-> "S1",
                               window_id |-> "W2", user |-> "U3"]

\* C12: every envelope sent carries a source record with the fields addon,
\* session_id, window_id and user; without a source override the first three
\* are the local identity, whatever the payload and the context override.
C12_SourceIsLocalIdentity ==
    EmitSent
        => /\ DOMAIN last.envelope.source = {"addon", "session_id", "window_id", "user"}
           /\ last.options.source.kind = "undefined"
                => /\ last.envelope.source.addon = qiConnection.addon
                   /\ last.envelope.source.session_id = qiConnection.session_id
                   /\ last.envelope.source.window_id = qiConnection.window_id

\* C12 witness: a payload and a context override without a source override
\* were sent with the identity of the window
C12_Witness ==
    /\ EmitSent
    /\ last.options.source.kind = "undefined"
    /\ last.options.payload = "payload"
    /\ last.options.context.kind = "object"
    /\ last.envelope.context.project = "C"
    /\ last.envelope.source.addon = "addon-skeleton"
    /\ last.envelope.source.session_id = "S1"
    /\ last.envelope.source.window_id = "W1"

\* the context values that each of the two windows brings in
WindowValues == {"A", "B", "X", EmptyString}

PeerValues == {"P", "Q"}

\* C13: two windows opened with distinct window_id parameters have distinct
\* window_id; neither window's context ever holds a value that only the other
\* window resolved or set; and context records are stored under the keys of
\* the two window_id only, each holding its own window's values.
C13_ContextIsWindowScoped ==
    /\ (Truthy(qiConnection.window_id) /\ Truthy(peer.window_id))
            => qiConnection.window_id # peer.window_id
    /\ \A f \in ContextFields :
            /\ qiConnection.context[f] \notin PeerValues
            /\ peer.context[f] \notin WindowValues
    /\ \A w \in DOMAIN sessionStorage.context :
            /\ w \in {qiConnection.window_id, peer.window_id}
            /\ w = qiConnection.window_id
                  => \A f \in ContextFields :
                        sessionStorage.context[w][f] \notin PeerValues
            /\ w = peer.window_id
                  => \A f \in ContextFields :
                        sessionStorage.context[w][f] \notin WindowValues

\* C13 witness: window W2 resolved its context again after W1 had persisted
\* project X, entity B; W2 holds its own record and its own values
C13_Witness ==
    /\ last.op = "peer-init"
    /\ peer.inits = 2
    /\ qiConnection.window_id = "W1"
    /\ peer.window_id = "W2"
    /\ DOMAIN sessionStorage.context = {"W1", "W2"}
    /\ sessionStorage.context["W1"] = [project |-> "X", entity |-> "B", task |-> Null]
    /\ sessionStorage.context["W2"] = [project |-> "Q", entity |-> "P", task |-> Null]
    /\ peer.context = [project |-> "Q", entity |-> "P", task |-> Null]

\* an initQiConnection call that ran to its end
InitCompleted == last.op = "init" /\ ~last.threw

\* C14: once a value is persisted under qiSessionId, no step replaces it, and
\* every initQiConnection call that reads the store sets session_id to it,
\* whatever the session_id parameter of the URL.
C14_PersistedSessionIsKept ==
    [][sessionStorage.qiSessionId # Null
        => /\ sessionStorage'.qiSessionId = sessionStorage.qiSessionId
           /\ (last'.op = "init" /\ last'.env.storage # "unavailable")
                => qiConnection'.session_id = sessionStorage.qiSessionId]_vars

\* C15: after an initQiConnection call, window_id is a non-empty string: the
\* window_id parameter of the URL when that is a non-empty string, and else
\* `window_` followed by the UUID generated last.
C15_WindowIdFromUrlOrGenerated ==
    InitCompleted
        => /\ qiConnection.window_id \notin {Undefined, Null, EmptyString}
           /\ last.env.window_id \notin {Null, EmptyString}
                => qiConnection.window_id = last.env.window_id
           /\ last.env.window_id \in {Null, EmptyString}
                => /\ uuidCount >= 1
                   /\ qiConnection.window_id = FallbackWindowId(uuidCount)

\* C15 witness: a window opened with `?session_id=S1&window_id=` generated
\* its window_id
C15_Witness ==
    /\ InitCompleted
    /\ last.env.window_id = EmptyString
    /\ last.env.session_id = "S1"
    /\ qiConnection.window_id = "window_uuid-1"

\* C19: no initQiConnection call throws: each one ends with session_id,
\* addon, window_id and context set, also when sessionStorage cannot be read
\* or holds a context record that is not JSON.
C19_ResolutionNeverThrows ==
    last.op = "init"
        => /\ ~last.threw
           /\ qiConnection.session_id # Null
           /\ qiConnection.addon # Null
           /\ qiConnection.window_id # Null
           /\ \A f \in ContextFields : qiConnection.context[f] # Undefined

NotNullish(v) == v \notin {Undefined, Null}

NotFalsy(v) == v \notin {Undefined, Null, EmptyString}

\* the first of the values of a field in the URL, the stored record and
\* window.qi_context that is neither undefined nor null, or null
FirstNotNullish(url, stored, global) ==
    IF NotNullish(url) THEN url
    ELSE IF NotNullish(stored) THEN stored
    ELSE IF NotNullish(global) THEN global
    ELSE Null

\* the same, passing over the empty string as well
FirstNotFalsy(url, stored, global) ==
    IF NotFalsy(url) THEN url
    ELSE IF NotFalsy(stored) THEN stored
    ELSE IF NotFalsy(global) THEN global
    ELSE Null

\* the record under the key of window w before the step
RecordBefore(w) ==
    IF w \in DOMAIN sessionStorage.context THEN sessionStorage.context[w]
    ELSE NoContext

\* C16 (as stated): initQiConnection resolves every context field to the value
\* of the first source that has one (URL parameter, then the record stored
\* for the window, then window.qi_context), or null.
C16_ContextFromFirstSourceWithValue ==
    [][(last'.op = "init" /\ ~last'.threw)
        => \A f \in ContextFields :
              qiConnection'.context[f] =
                  FirstNotNullish(last'.env.urlContext[f],
                                  RecordBefore(qiConnection'.window_id)[f],
                                  last'.env.qi_context[f])]_vars

\* C16 (amended): initQiConnection resolves every context field to the value
\* of the first source whose value is truthy (URL parameter, then the record
\* stored for the window, then window.qi_context), or null; an empty string
\* counts as absent.
C16_ContextFromFirstTruthySource ==
    [][(last'.op = "init" /\ ~last'.threw)
        => \A f \in ContextFields :
              qiConnection'.context[f] =
                  FirstNotFalsy(last'.env.urlContext[f],
                                RecordBefore(qiConnection'.window_id)[f],
                                last'.env.qi_context[f])]_vars

\* C16 witness: with `?project=&entity=B`, stored project X and entity X, and
\* window.qi_context {project: G, task: G}, the context is X, B, G
C16_Witness ==
    /\ InitCompleted
    /\ initCount = 2
    /\ last.env.urlContext = [project |-> EmptyString, entity |-> "B", task |-> Null]
    /\ last.env.qi_context = [project |-> "G", entity |-> Undefined, task |-> "G"]
    /\ qiConnection.context = [project |-> "X", entity |-> "B", task |-> "G"]

\* C17: initQiConnection stores the resolved context under the window key
\* when one of its fields is not null, and leaves every stored context record
\* as it was when all are null.
C17_DetectedContextStoredIffNotEmpty ==
    [][(last'.op = "init" /\ ~last'.threw)
        => IF \E f \in ContextFields : qiConnection'.context[f] # Null
           THEN /\ qiConnection'.window_id \in DOMAIN sessionStorage'.context
                /\ sessionStorage'.context[qiConnection'.window_id]
                      = qiConnection'.context
           ELSE sessionStorage'.context = sessionStorage.context]_vars

\* C17 witness: a call resolved every field to null while the window's record
\* held an empty project, and the record is still there
C17_Witness ==
    /\ InitCompleted
    /\ \A f \in ContextFields : qiConnection.context[f] = Null
    /\ qiConnection.window_id \in DOMAIN sessionStorage.context
    /\ sessionStorage.context[qiConnection.window_id] =
          [project |-> EmptyString, entity |-> Null, task |-> Null]

\* what updateContext(newContext) does to the in-memory context
UpdateContextMerges ==
    \A f \in ContextFields :
        qiConnection'.context[f] =
            (IF last'.newContext[f] # Undefined THEN last'.newContext[f]
             ELSE qiConnection.context[f])

\* C18 (as stated): updateContext sets the fields of newContext, explicit null
\* included, keeps the others, and leaves the record stored under the window
\* key equal to the in-memory context.
C18_UpdateContextIsPersisted ==
    [][last'.op = "updateContext"
        => /\ UpdateContextMerges
           /\ qiConnection'.window_id \in DOMAIN sessionStorage'.context
           /\ sessionStorage'.context[qiConnection'.window_id]
                 = qiConnection'.context]_vars

\* C18 (amended): updateContext sets the fields of newContext, explicit null
\* included, and keeps the others; when window_id is set it leaves the record
\* stored under the window key equal to the in-memory context, and when
\* window_id is not set (before initQiConnection) it leaves the store as it was.
C18_UpdateContextIsPersistedOnceWindowIdIsSet ==
    [][last'.op = "updateContext"
        => /\ UpdateContextMerges
           /\ IF qiConnection.window_id \notin {Undefined, Null, EmptyString}
              THEN /\ qiConnection.window_id \in DOMAIN sessionStorage'.context
                   /\ sessionStorage'.context[qiConnection.window_id]
                         = qiConnection'.context
              ELSE sessionStorage' = sessionStorage]_vars

\* C18 witness: updateContext({project: null, task: X}) on project A, entity B
\* gave null, B, X in memory and in the record of window W1
C18_Witness ==
    /\ last.op = "updateContext"
    /\ last.newContext = [project |-> Null, entity |-> Undefined, task |-> "X"]
    /\ qiConnection.window_id = "W1"
    /\ qiConnection.context = [project |-> Null, entity |-> "B", task |-> "X"]
    /\ "W1" \in DOMAIN sessionStorage.context
    /\ sessionStorage.context["W1"] = qiConnection.context

\* C20: no emit call throws to its caller, whatever the topic and the options;
\* a call that sends no frame leaves the handles, the identity, the context,
\* the handlers and the store as they were.
C20_EmitNeverThrows ==
    [][last'.op = "emit"
        => /\ last'.outcome # "raised"
           /\ last'.outcome # "sent"
                => UNCHANGED <<sockets, wsGlobal, qiConnection, messageHandlers,
                               sessionStorage>>]_vars

\* the place of handler h in the sequence seq
Position(seq, h) == CHOOSE i \in DOMAIN seq : seq[i] = h

\* C21: an envelope invokes the handlers of its topic in the order of the
\* handler Set, and that order is the order of registration: a step keeps the
\* relative order of the handlers that stay registered (calling on again for
\* a registered handler included) and puts a newly registered handler last.
C21_HandlersRunInRegistrationOrder ==
    /\ [](EnvelopeReceived => last.result.invoked = Registered)
    /\ [][messageHandlers' # messageHandlers =>
          \A t \in (DOMAIN messageHandlers) \cup (DOMAIN messageHandlers') :
            LET old == MapGet(messageHandlers, t)
                new == MapGet(messageHandlers', t)
            IN  /\ \A g, h \in Range(old) \cap Range(new) :
                        Position(old, g) < Position(old, h)
                            => Position(new, g) < Position(new, h)
                /\ \A h \in Range(new) \ Range(old) : h = new[Len(new)]]_vars

\* C21 witness: on was called for h2, for h1 and for h2 again, and an
\* envelope invoked h2 before h1
C21_Witness ==
    /\ EnvelopeReceived
    /\ <<last.frame.topic, "h2">> \in onCalls
    /\ last.result.invoked = <<"h2", "h1">>

\* C22: every "message" event dispatches its own frame once, inside the
\* event: each handler of the topic is invoked once and no other, a frame
\* that is not an envelope invokes none, and no other step invokes a handler.
C22_OneDispatchPerReceivedFrame ==
    /\ [](last.op = "message"
            => IF EnvelopeReceived
               THEN /\ Range(last.result.invoked) = Range(Registered)
                    /\ Len(last.result.invoked) = Len(Registered)
               ELSE last.result.invoked = <<>>)
    /\ [][last'.op # "message" => "result" \notin DOMAIN last']_vars

\* C22 witness: an envelope was dispatched to two handlers right after
\* another frame had been received
C22_Witness ==
    /\ EnvelopeReceived
    /\ last.after = "object"
    /\ Len(last.result.invoked) = 2

\* the window state handlers registered for a lifecycle topic
SyncHandlersOf(topic) == SelectSeq(MapGet(messageHandlers, topic), IsSync)

\* C24: once setupWindowSubscriptions has run, the handler map holds one
\* window state handler for each lifecycle topic, however many
\* initQiConnection calls were made.
C24_OneSyncHandlerPerTopic ==
    setupCount >= 1
        => \A i \in DOMAIN LifecycleTopics : Len(SyncHandlersOf(LifecycleTopics[i])) = 1

\* C26: a close or error event on the current handle leaves connected false,
\* the handle in window.__qiConnection and the handler map as they were;
\* while connected is false an emit call does nothing, and connected turns
\* true only by an open event or an initQiConnection call.
C26_CloseOrErrorDisconnects ==
    [][/\ (last'.op \in {"close", "error"} /\ last'.socket = wsGlobal)
            => /\ ~qiConnection'.connected
               /\ wsGlobal' = wsGlobal
               /\ messageHandlers' = messageHandlers
       /\ (~qiConnection.connected /\ last'.op = "emit")
            => /\ last'.outcome = "not-connected"
               /\ UNCHANGED <<sockets, uuidCount>>
       /\ (~qiConnection.connected /\ qiConnection'.connected)
            => last'.op \in {"open", "init"}]_vars

\* C26 witness: the current handle failed while open, with the window state
\* handlers registered
C26_Witness ==
    /\ last.op = "error"
    /\ last.socket = wsGlobal
    /\ setupCount = 1
    /\ ~qiConnection.connected
    /\ sockets[wsGlobal].readyState = CLOSED

\* C30: the window_id in the URI of the handle held in window.__qiConnection
\* is qiConnection.window_id.
C30_HandleCarriesWindowId ==
    wsGlobal # 0 => sockets[wsGlobal].window_id = qiConnection.window_id

\* the window state handlers' view of windowState
WindowState == <<ui.isMaximized, ui.isMinimized>>

\* C23: a window state handler changes windowState only for an envelope whose
\* payload.window_id is the local window_id and whose payload.success is true
C23_SyncOnlyForOwnWindowOnSuccess ==
    [][WindowState' # WindowState =>
          /\ last'.op = "message"
          /\ PayloadField(last'.frame, "window_id") = qiConnection.window_id
          /\ PayloadField(last'.frame, "success") = "true"]_vars

C23_Witness ==
    /\ EnvelopeReceived
    /\ last.frame.topic = "wm.window.maximized"
    /\ PayloadField(last.frame, "window_id") = qiConnection.window_id
    /\ PayloadField(last.frame, "success") = "true"
    /\ last.result.invoked = <<"sync-1">>
    /\ ui.isMaximized = "true"

\* C25: a lifecycle envelope received before setupWindowSubscriptions has run
\* reaches no handler and changes no window state, and the subscription made
\* later changes none either: the envelope is not replayed
C25_EarlyLifecycleEnvelopeIsDropped ==
    /\ [][(/\ last'.op = "message"
           /\ setupCount = 0
           /\ last'.frame.topic \in Range(LifecycleTopics))
          => ui' = ui /\ last'.result.invoked = <<>>]_vars
    /\ [][last'.op = "setup" => ui' = ui]_vars

C25_Witness ==
    /\ EnvelopeReceived
    /\ setupCount = 0
    /\ pendingSetup > 0
    /\ last.socket = wsGlobal
    /\ last.frame.topic = "wm.window.maximized"
    /\ PayloadField(last.frame, "window_id") = qiConnection.window_id
    /\ PayloadField(last.frame, "success") = "true"
    /\ PayloadField(last.frame, "maximized") = "true"
    /\ ui.isMaximized = "false"

\* the demo page has subscribed with the router and an emit would go out
DemoPageLive ==
    /\ ui.mounted = "router"
    /\ qiConnection.connected
    /\ qiConnection.socket \in DOMAIN sockets
    /\ sockets[qiConnection.socket].readyState = OPEN

\* C27: on the demo page, subscribed with the router and connected, the
\* server's wm.window.opened makes the client send one wm.window.list_all, and
\* the server's wm.window.listed with {windows: L} makes the page's list L
C27_DemoOpenListRoundTrip ==
    [][/\ (/\ DemoPageLive
           /\ EnvelopeReceived'
           /\ last'.frame.topic = "wm.window.opened")
          => /\ Len(last'.emitted) = 1
             /\ last'.emitted[1].topic = "wm.window.list_all"
             /\ last'.emitted[1].outcome = "sent"
             /\ last'.emitted[1].envelope.payload = EmptyObject
       /\ (/\ ui.mounted = "router"
           /\ EnvelopeReceived'
           /\ last'.frame.topic = "wm.window.listed"
           /\ PayloadField(last'.frame, "windows") \in WindowLists)
          => ui'.windows = PayloadField(last'.frame, "windows")]_vars

C27_Witness ==
    /\ EnvelopeReceived
    /\ last.frame.topic = "wm.window.listed"
    /\ PayloadField(last.frame, "windows") = "[W1,W2]"
    /\ ui.windows = "[W1,W2]"
    /\ ui.mounted = "router"
    /\ uuidCount >= 2

\* the n-th getWindowState call has subscribed and its promise is pending
Subscribed(handlers, n) ==
    GetStateHandler(n) \in Range(MapGet(handlers, "wm.window.state_response"))

\* the frame is a state response of the window with this id
ResponseOf(frame, window_id) ==
    /\ frame.json = "object"
    /\ frame.topic = "wm.window.state_response"
    /\ PayloadField(frame, "source") = "object"
    /\ PayloadField(frame, "source_window_id") = window_id

\* C29: with the router installed, getWindowState subscribes to
\* wm.window.state_response and emits wm.window.get_state; its promise is
\* resolved by the first state response whose source.window_id is the local
\* window_id, with that payload; any other envelope leaves it pending; once
\* resolved its handler is no longer registered
C29_GetWindowStateResolvesOnOwnResponse ==
    [][/\ (installed /\ last'.op = "getWindowState")
          => /\ Subscribed(messageHandlers', last'.request)
             /\ ui'.requests[last'.request] = "pending"
             /\ Len(last'.emitted) = 1
             /\ last'.emitted[1].topic = "wm.window.get_state"
       /\ \A n \in DOMAIN ui.requests :
             IF /\ Subscribed(messageHandlers, n)
                /\ last'.op = "message"
                /\ ResponseOf(last'.frame, qiConnection.window_id)
             THEN /\ ui'.requests[n] = last'.frame.payload
                  /\ ~Subscribed(messageHandlers', n)
             ELSE /\ ui'.requests[n] = ui.requests[n]
                  /\ Subscribed(messageHandlers', n) = Subscribed(messageHandlers, n)]_vars

C29_Witness ==
    /\ last.op = "message"
    /\ ResponseOf(last.frame, qiConnection.window_id)
    /\ Len(ui.requests) = 2
    /\ ui.requests[1] = "P1"
    /\ ui.requests[2] = "P2"
    /\ "wm.window.state_response" \notin DOMAIN messageHandlers

\* the decoded frame has every field the caller gave: the topic, a JSON
\* payload, the fields of a context override, a user, a reply_to, and the
\* fields of a source override
ReproducesCallerFields(call) ==
    LET options == call.options
        decoded == call.decoded
    IN  /\ decoded.topic = call.topic
        /\ options.payload \notin {Undefined, LossyPayload}
              => decoded.payload = options.payload
        /\ options.context.kind = "object"
              => \A f \in ContextFields :
                    options.context[f] # Undefined => decoded.context[f] = options.context[f]
        /\ Truthy(options.user) => decoded.user = options.user
        /\ options.reply_to # Undefined => decoded.reply_to = options.reply_to
        /\ options.source.kind = "object"
              => /\ Truthy(options.source.addon)
                      => decoded.source.addon = options.source.addon
                 /\ Truthy(options.source.session_id)
                      => decoded.source.session_id = options.source.session_id
                 /\ options.source.window_id # Undefined
                      => decoded.source.window_id = options.source.window_id
                 /\ options.source.user # Undefined
                      => decoded.source.user = options.source.user

\* two emit calls, one step after the other, each of which sent a frame
SuccessiveEmits ==
    /\ EmitSent
    /\ EmitSent'
    /\ last'.topic = last.topic
    /\ last'.options = last.options

C31_StaleHandleEventsAreIgnored ==
    (wsGlobal # 0 /\ sockets[wsGlobal].readyState = OPEN) => qiConnection.connected

\* the step received the confirmation `topic` for this window with success true
Confirmed(topic) ==
    /\ last'.op = "message"
    /\ last'.frame.json = "object"
    /\ last'.frame.topic = topic
    /\ PayloadField(last'.frame, "window_id") = qiConnection.window_id
    /\ PayloadField(last'.frame, "success") = "true"

\* C32: windowState.isMinimized and windowState.isMaximized become true only
\* in a step that receives the matching confirmation for this window with
\* success true; minimizeWindow and maximizeWindow called while not connected
\* leave windowState unchanged
C32_WindowStateMirrorsConfirmations ==
    [][/\ (ui.isMinimized # "true" /\ ui'.isMinimized = "true")
            => Confirmed("wm.window.minimized")
       /\ (ui.isMaximized # "true" /\ ui'.isMaximized = "true")
            => Confirmed("wm.window.maximized")
       /\ (~qiConnection.connected /\ last'.op \in {"minimizeWindow", "maximizeWindow"})
            => WindowState' = WindowState]_vars

\* C33: initQiConnection leaves every registration in place, also when it
\* creates a new handle, and an envelope received on the new handle invokes
\* the handlers registered for its topic, which the caller registered while
\* the first handle was current
C33_RegistrationsSurviveReconnect ==
    /\ [][last'.op = "init" => messageHandlers' = messageHandlers]_vars
    /\ []((EnvelopeReceived /\ last.socket > 1)
            => last.result.invoked = MapGet(messageHandlers, last.frame.topic))

C33_Witness ==
    /\ EnvelopeReceived
    /\ last.socket = 2
    /\ wsGlobal = 2
    /\ sockets[1].readyState = CLOSED
    /\ last.frame.topic = "wm.window.listed"
    /\ last.result.invoked = <<"h2", "h1">>

\* C34: a getWindowState call whose wm.window.get_state emit is dropped
\* because the connection is not connected, and which therefore gets no
\* response, leaves no handler for wm.window.state_response registered
C34_UnansweredRequestLeavesNoHandler ==
    [][(/\ last'.op = "getWindowState"
        /\ last'.emitted[1].outcome = "not-connected")
          => ~Subscribed(messageHandlers', last'.request)]_vars

\* the getWindowState calls a step resolves
ResolvedByStep ==
    {n \in DOMAIN ui.requests : ui.requests[n] = "pending" /\ ui'.requests[n] # "pending"}

\* C35: one wm.window.state_response envelope resolves at most one pending
\* getWindowState call
C35_ResponseResolvesOneRequest == [][Cardinality(ResolvedByStep) <= 1]_vars

\* the handlers registered for the topic of the frame when its dispatch began
RegisteredBefore == MapGet(messageHandlers, last'.frame.topic)

\* C36: a dispatch invokes only handlers registered for the topic when it
\* began, each at most once, and every one of them that is still registered
\* after the dispatch or that unsubscribed itself; a handler registered by
\* another handler during the dispatch is not invoked for this envelope
C36_DispatchOverSnapshot ==
    [][EnvelopeReceived' =>
          LET invoked == last'.result.invoked
          IN  /\ Range(invoked) \subseteq Range(RegisteredBefore)
              /\ Cardinality(Range(invoked)) = Len(invoked)
              /\ \A h \in Range(RegisteredBefore) :
                    (\/ h \in Range(MapGet(messageHandlers', last'.frame.topic))
                     \/ h = "once")
                        => h \in Range(invoked)]_vars

\* C37: in a window whose window_id comes from the URL and whose URL has no
\* context parameters, an initQiConnection that follows an updateContext
\* leaves qiConnection.context as it was before the reload, for a context
\* whose fields are null or non-empty strings
C37_ContextSurvivesReload ==
    [][(/\ last.op = "updateContext"
        /\ last'.op = "init"
        /\ ~last'.threw
        /\ last'.env.window_id = qiConnection.window_id
        /\ last'.env.urlContext = NoUrlContext
        /\ \A f \in ContextFields : qiConnection.context[f] \notin {Undefined, EmptyString})
          => qiConnection'.context = qiConnection.context]_vars

\* C38: before initQiConnection, on and off leave the handler map unchanged,
\* and a handler passed to on then is invoked for no envelope, also after the
\* connection has been initialised
C38_StubsRegisterNothing ==
    /\ [][(~installed /\ last'.op \in {"on", "off"})
            => messageHandlers' = messageHandlers]_vars
    /\ [](last.op = "message" => Range(last.result.invoked) \cap AppHandlers = {})

C38_Witness ==
    /\ last.op = "on"
    /\ ~installed
    /\ messageHandlers = NoHandlers

\* initQiConnection has returned with the current handle still CONNECTING
InitOnConnectingHandle ==
    /\ last.op = "init"
    /\ ~last.threw
    /\ sockets[wsGlobal].readyState = CONNECTING

\* C39: an initQiConnection that leaves the current handle CONNECTING (its
\* own new handle, or a reused one) leaves connected false; the open event of
\* that handle makes connected true, and an emit that follows it sends; and
\* on a network where the socket opens, connected becomes true in the end,
\* with no further initQiConnection
C39_ReusedConnectingHandleOpens ==
    /\ [](InitOnConnectingHandle => ~qiConnection.connected)
    /\ [][last'.op = "open" => qiConnection'.connected]_vars
    /\ [][(last.op = "open" /\ last.socket = wsGlobal /\ last'.op = "emit")
            => last'.outcome = "sent"]_vars
    /\ [](InitOnConnectingHandle => <>qiConnection.connected)

C39_Witness ==
    /\ last.op = "open"
    /\ last.socket = 1
    /\ initCount = 2
    /\ Len(sockets) = 1
    /\ qiConnection.connected

\* the last step is an emit in normal mode that sent its envelope
SentInNormalMode ==
    /\ last.op = "emit"
    /\ last.outcome = "sent"
    /\ last.options.source = NoSourceOverride

====
